---- MODULE Spec2Model ----
(***************************************************************************)
(* A model of the screening core of the Nordic stock screener:             *)
(*   src/src/calculations/industry_averages.py  (IndustryAverages)         *)
(*   src/src/screening/filters.py               (StockFilters)             *)
(*   src/src/screening/screener.py              (Screener)                 *)
(*                                                                         *)
(* Python floats are modelled as exact rationals [n |-> Int, d |-> Nat>0]  *)
(* in lowest terms; Optional[T] is modelled as a sequence of length <= 1   *)
(* (None is the empty sequence, a known value v is <<v>>).                 *)
(*                                                                         *)
(* The specifications share the variables:                                 *)
(*   Spec          one Screener.run, stage by stage                        *)
(*   SpecAverages  add_company and the getters called on IndustryAverages  *)
(*   SpecFilters   one call of a StockFilters criterion over a built pool  *)
(*   SpecScore     one call of Screener._calculate_score                   *)
(*   SpecTTM       one call on a TTMCalculator                             *)
(*   SpecGrowth    one call on a GrowthAnalyzer                            *)
(*   SpecMetrics   one call on a MetricsCalculator                         *)
(*   SpecCached    IndustryAverages objects sharing the cached averages    *)
(* IndustryAverages.is_below_average and get_all_averages have no caller   *)
(* in the repository and are not modelled.                                 *)
(***************************************************************************)
EXTENDS Integers, Sequences, FiniteSets, TLC

VARIABLES
    industry_averages,  \* the IndustryAverages object (Screener.industry_averages)
    cache,              \* the "industry:averages" entry of the global cache
    cache_writes,       \* number of cache.set_industry_averages calls so far
    loaded,             \* whether load_from_cache installed cached averages in the object
    call,               \* the last public operation invoked: name, arguments, result
    nadds,              \* number of add_company calls made on the object so far
    nreads,             \* number of reads served since the last add_company
    pc,                 \* position of Screener.run
    min_filters,        \* argument of Screener.run
    universe,           \* what the fetchers return for each listed company
    idx,                \* loop index of the running stage of Screener.run
    all_metrics,        \* list built by _fetch_and_calculate_metrics
    filters,            \* Screener.filters (None until step 4 of run)
    results,            \* list built by _screen_companies
    outcome             \* how run ended: the returned list or the exception raised

vars == <<industry_averages, cache, cache_writes, loaded, call, nadds, nreads, pc, min_filters,
          universe, idx, all_metrics, filters, results, outcome>>

poolVars == <<industry_averages, cache, cache_writes, loaded>>
callVars == <<call, nadds, nreads>>
runVars  == <<pc, min_filters, universe, idx, all_metrics, filters, results, outcome>>

----------------------------------------------------------------------------
(* Optional[T] *)

None == << >>
Some(v) == <<v>>
IsNone(o) == o = None
Val(o) == o[1]

\* Python truthiness of an Optional[str] label: None and "" are both falsy.
Truthy(label) == label # None /\ Val(label) # ""

----------------------------------------------------------------------------
(* Exact rational arithmetic standing for float arithmetic *)

Abs(x) == IF x < 0 THEN -x ELSE x

RECURSIVE GCD(_, _)
GCD(a, b) == IF b = 0 THEN a ELSE GCD(b, a % b)

Reduce(n, d, g) == [n |-> n \div g, d |-> d \div g]

\* n/d with d > 0, in lowest terms
Rat(n, d) == Reduce(n, d, GCD(Abs(n), d))

R(i) == [n |-> i, d |-> 1]

RAdd(a, b) == Rat(a.n * b.d + b.n * a.d, a.d * b.d)
RSub(a, b) == Rat(a.n * b.d - b.n * a.d, a.d * b.d)
RMul(a, b) == Rat(a.n * b.n, a.d * b.d)
\* a / b for b # 0
RDiv(a, b) == IF b.n > 0 THEN Rat(a.n * b.d, a.d * b.n)
                         ELSE Rat(-(a.n * b.d), a.d * (-b.n))
RLt(a, b) == a.n * b.d < b.n * a.d
RLe(a, b) == a.n * b.d <= b.n * a.d
RMin(a, b) == IF RLt(b, a) THEN b ELSE a
RMax(a, b) == IF RLt(a, b) THEN b ELSE a

----------------------------------------------------------------------------
(* IndustryAverages *)

\* add_company's outlier guard: pe > 200 is not pooled
PE_OUTLIER == 200

\* sorted(pes): ascending, by insertion
RECURSIVE Insert(_, _)
Insert(x, s) ==
    IF s = << >> THEN <<x>>
    ELSE IF RLt(x, Head(s)) THEN <<x>> \o s
    ELSE <<Head(s)>> \o Insert(x, Tail(s))

RECURSIVE sorted(_)
sorted(s) == IF s = << >> THEN << >> ELSE Insert(Head(s), sorted(Tail(s)))

\* a median that takes the upper central value instead of the mean of the two
MidValue_upper(sorted_pes, mid) == sorted_pes[mid + 1]

\* the central value(s) of sorted_pes; mid = len(sorted_pes) // 2 is the 0-based
\* index of the source, so its element is sorted_pes[mid + 1] here
MidValue(sorted_pes, mid) ==
    IF Len(sorted_pes) % 2 = 0
    THEN RDiv(RAdd(sorted_pes[mid], sorted_pes[mid + 1]), R(2))
    ELSE sorted_pes[mid + 1]

\* the median written into _industry_avg / _sector_avg for a non-empty bucket
Median(pes) == MidValue(sorted(pes), Len(pes) \div 2)

\* IndustryAverages.__init__
NewIndustryAverages ==
    [pe_by_industry      |-> << >>,
     pe_by_sector        |-> << >>,
     averages_calculated |-> FALSE,
     industry_avg        |-> << >>,
     sector_avg          |-> << >>]

\* defaultdict(list)[key].append(pe)
Append_to(buckets, key, pe) ==
    [k \in DOMAIN buckets \cup {key} |->
        IF k = key
        THEN (IF key \in DOMAIN buckets THEN buckets[key] ELSE << >>) \o <<pe>>
        ELSE buckets[k]]

\* a guard that turns away an observation of exactly PE_OUTLIER
Accepted_below(pe) == pe # None /\ RLt(R(0), Val(pe)) /\ RLt(Val(pe), R(PE_OUTLIER))

\* the guard of add_company: the observation is pooled
Accepted(pe) == pe # None /\ RLt(R(0), Val(pe)) /\ RLe(Val(pe), R(PE_OUTLIER))

\* IndustryAverages.add_company(industry, sector, pe): the object afterwards
add_company(ia, industry, sector, pe) ==
    IF ~Accepted(pe) THEN ia
    ELSE [ia EXCEPT
            !.pe_by_industry = IF Truthy(industry)
                               THEN Append_to(@, Val(industry), Val(pe)) ELSE @,
            !.pe_by_sector   = IF Truthy(sector)
                               THEN Append_to(@, Val(sector), Val(pe)) ELSE @,
            !.averages_calculated = FALSE]

\* one loop of _calculate_averages: dict entries are assigned for the buckets
\* that hold observations, every other entry of the dict is left as it was
Collapse(avg, buckets) ==
    [k \in DOMAIN avg \cup {b \in DOMAIN buckets : buckets[b] # << >>} |->
        IF k \in DOMAIN buckets /\ buckets[k] # << >> THEN Median(buckets[k]) ELSE avg[k]]

\* IndustryAverages._calculate_averages on the world w = [ia, cache, cache_writes]
\* cache.set_industry_averages({"industry": ..., "sector": ...}) at the end of it
CacheAverages(ia, writes) ==
    [ia           |-> ia,
     cache        |-> Some([industry |-> ia.industry_avg, sector |-> ia.sector_avg]),
     cache_writes |-> writes + 1]

_calculate_averages(w) ==
    CacheAverages([w.ia EXCEPT
                     !.industry_avg = Collapse(@, w.ia.pe_by_industry),
                     !.sector_avg   = Collapse(@, w.ia.pe_by_sector),
                     !.averages_calculated = TRUE],
                  w.cache_writes)

\* dict.get(key) on a label that is known to be truthy
DictGet(d, key) == IF key \in DOMAIN d THEN Some(d[key]) ELSE None

\* a getter prologue that recomputes on every read
Recalculated_always(w) == _calculate_averages(w)

\* "if not self._averages_calculated: self._calculate_averages()", the first
\* statement of each getter
Recalculated(w) == IF ~w.ia.averages_calculated THEN _calculate_averages(w) ELSE w

\* IndustryAverages.get_industry_average(industry): [w |-> world after, ret |-> value]
ServeIndustry(w2, industry) ==
    [w   |-> w2,
     ret |-> IF ~Truthy(industry) THEN None
             ELSE DictGet(w2.ia.industry_avg, Val(industry))]

get_industry_average(w, industry) == ServeIndustry(Recalculated(w), industry)

\* IndustryAverages.get_sector_average(sector)
ServeSector(w2, sector) ==
    [w   |-> w2,
     ret |-> IF ~Truthy(sector) THEN None
             ELSE DictGet(w2.ia.sector_avg, Val(sector))]

get_sector_average(w, sector) == ServeSector(Recalculated(w), sector)

\* IndustryAverages.get_peer_average(industry, sector)
\* "if industry_avg is not None: return industry_avg" else the sector's
IndustryElseSector(i, sector) ==
    IF i.ret # None THEN i ELSE get_sector_average(i.w, sector)

get_peer_average(w, industry, sector) ==
    IndustryElseSector(get_industry_average(w, industry), sector)

World == [ia |-> industry_averages, cache |-> cache, cache_writes |-> cache_writes]

----------------------------------------------------------------------------
(* FinancialMetrics and the screening thresholds *)

\* the FinancialMetrics dataclass with only the identity fields given
BlankMetrics ==
    [ticker |-> "", name |-> "", exchange |-> "", sector |-> None, industry |-> None,
     pe_ratio |-> None, market_cap |-> None, roic |-> None, roic_history |-> None,
     revenue_growth_years |-> None, earnings_growth_years |-> None,
     debt_to_equity |-> None, free_cash_flow |-> None, cf_yield |-> None,
     ttm_revenue |-> None, ttm_earnings |-> None,
     has_positive_earnings |-> FALSE, data_complete |-> FALSE]

\* calculate_all: has_positive_earnings = (ttm_earnings is not None and ttm_earnings > 0)
has_positive_earnings(ttm_earnings) ==
    ttm_earnings # None /\ RLt(R(0), Val(ttm_earnings))

\* settings.thresholds (ScreeningThresholds defaults)
min_roic == Rat(10, 100)
roic_years == 3
growth_years == 3
max_debt_to_equity == Rat(1, 1)
min_cf_yield == Rat(5, 100)

\* filter_pe_below_industry: "If no peer data, use market average of ~20"
DEFAULT_PEER_PE == 20

----------------------------------------------------------------------------
(* StockFilters: each criterion returns a FilterResult.  The reason keeps   *)
(* the wording of the source with the formatted numbers left out.           *)

FilterResult(passed, reason, value, threshold) ==
    [passed |-> passed, reason |-> reason, value |-> value, threshold |-> threshold]

\* StockFilters.filter_pe_below_industry: reads the pool, so it returns
\* [w |-> world after, ret |-> FilterResult]
\* a comparison that also passes a PE equal to the peer value
PeAgainst_nonstrict(metrics, peer_avg) ==
    FilterResult(RLe(Val(metrics.pe_ratio), peer_avg),
                 "PE compared with industry avg",
                 metrics.pe_ratio, Some(peer_avg))

\* "passed = metrics.pe_ratio < peer_avg" and the FilterResult built from it
PeAgainst(metrics, peer_avg) ==
    FilterResult(RLt(Val(metrics.pe_ratio), peer_avg),
                 "PE compared with industry avg",
                 metrics.pe_ratio, Some(peer_avg))

\* "if peer_avg is None: peer_avg = 20.0"
PeAgainstPeer(metrics, peer) ==
    [w   |-> peer.w,
     ret |-> PeAgainst(metrics, IF peer.ret = None THEN R(DEFAULT_PEER_PE)
                                                   ELSE Val(peer.ret))]

filter_pe_below_industry(w, metrics) ==
    IF metrics.pe_ratio = None
    THEN [w |-> w, ret |-> FilterResult(FALSE, "PE ratio not available", None, None)]
    ELSE PeAgainstPeer(metrics, get_peer_average(w, metrics.industry, metrics.sector))

\* sum(1 for r in roic_history if r >= min_roic)
RECURSIVE years_above(_)
years_above(h) ==
    IF h = << >> THEN 0
    ELSE (IF RLe(min_roic, Head(h)) THEN 1 ELSE 0) + years_above(Tail(h))

\* a criterion that looks at the roic_years most recent entries only
filter_roic_consistent_recent(metrics) ==
    IF metrics.roic_history = None \/ Val(metrics.roic_history) = << >>
    THEN FilterResult(FALSE, "ROIC history not available", None, None)
    ELSE FilterResult(/\ Len(Val(metrics.roic_history)) >= roic_years
                      /\ years_above(SubSeq(Val(metrics.roic_history), 1, roic_years))
                            >= roic_years,
                      "ROIC>min for n/required years",
                      metrics.roic, Some(min_roic))

\* StockFilters.filter_roic_consistent; "not metrics.roic_history" holds for
\* None and for the empty list
filter_roic_consistent(metrics) ==
    IF metrics.roic_history = None \/ Val(metrics.roic_history) = << >>
    THEN FilterResult(FALSE, "ROIC history not available", None, None)
    ELSE FilterResult(years_above(Val(metrics.roic_history)) >= roic_years,
                      "ROIC>min for n/required years",
                      metrics.roic, Some(min_roic))

\* StockFilters.filter_revenue_growth
filter_revenue_growth(metrics, gy) ==
    IF gy = None
    THEN FilterResult(FALSE, "Revenue growth data not available", None, None)
    ELSE FilterResult(Val(gy) >= growth_years,
                      "Revenue growth: n/required consecutive years",
                      Some(R(Val(gy))), Some(R(growth_years)))

\* StockFilters.filter_earnings_growth
filter_earnings_growth(metrics, gy) ==
    IF gy = None
    THEN FilterResult(FALSE, "Earnings growth data not available", None, None)
    ELSE FilterResult(Val(gy) >= growth_years,
                      "Earnings growth: n/required consecutive years",
                      Some(R(Val(gy))), Some(R(growth_years)))

\* a D/E criterion that reads an unknown ratio as the number zero
filter_debt_to_equity_zero(metrics) ==
    FilterResult(RLt(IF metrics.debt_to_equity = None THEN R(0)
                     ELSE Val(metrics.debt_to_equity), max_debt_to_equity),
                 "D/E compared with max",
                 metrics.debt_to_equity, Some(max_debt_to_equity))

\* StockFilters.filter_debt_to_equity
filter_debt_to_equity(metrics) ==
    IF metrics.debt_to_equity = None
    THEN FilterResult(FALSE, "D/E ratio not available", None, None)
    ELSE FilterResult(RLt(Val(metrics.debt_to_equity), max_debt_to_equity),
                      "D/E compared with max",
                      metrics.debt_to_equity, Some(max_debt_to_equity))

\* StockFilters.filter_positive_fcf
filter_positive_fcf(metrics) ==
    IF metrics.free_cash_flow = None
    THEN FilterResult(FALSE, "FCF not available", None, None)
    ELSE FilterResult(RLt(R(0), Val(metrics.free_cash_flow)),
                      "FCF (positive) or (negative)",
                      metrics.free_cash_flow, Some(R(0)))

\* a CF-yield criterion that fails a yield equal to the minimum
filter_cf_yield_strict(metrics) ==
    IF metrics.cf_yield = None
    THEN FilterResult(FALSE, "CF yield not available", None, None)
    ELSE FilterResult(RLt(min_cf_yield, Val(metrics.cf_yield)),
                      "CF yield compared with min",
                      metrics.cf_yield, Some(min_cf_yield))

\* StockFilters.filter_cf_yield
filter_cf_yield(metrics) ==
    IF metrics.cf_yield = None
    THEN FilterResult(FALSE, "CF yield not available", None, None)
    ELSE FilterResult(RLe(min_cf_yield, Val(metrics.cf_yield)),
                      "CF yield compared with min",
                      metrics.cf_yield, Some(min_cf_yield))

\* StockFilters.filter_positive_earnings
filter_positive_earnings(metrics) ==
    FilterResult(metrics.has_positive_earnings,
                 "TTM Earnings (profitable) or (loss-maker)",
                 metrics.ttm_earnings, Some(R(0)))

\* the methods class StockFilters defines
StockFiltersMethods ==
    {"filter_pe_below_industry", "filter_roic_consistent", "filter_revenue_growth",
     "filter_earnings_growth", "filter_debt_to_equity", "filter_positive_fcf",
     "filter_cf_yield", "filter_positive_earnings"}

\* self.filters.<method>(metrics[, growth_years]) for a method the class defines
Invoke(method, w, metrics, gy) ==
    CASE method = "filter_pe_below_industry" -> filter_pe_below_industry(w, metrics)
      [] method = "filter_roic_consistent"   -> [w |-> w, ret |-> filter_roic_consistent(metrics)]
      [] method = "filter_revenue_growth"    -> [w |-> w, ret |-> filter_revenue_growth(metrics, gy)]
      [] method = "filter_earnings_growth"   -> [w |-> w, ret |-> filter_earnings_growth(metrics, gy)]
      [] method = "filter_debt_to_equity"    -> [w |-> w, ret |-> filter_debt_to_equity(metrics)]
      [] method = "filter_positive_fcf"      -> [w |-> w, ret |-> filter_positive_fcf(metrics)]
      [] method = "filter_cf_yield"          -> [w |-> w, ret |-> filter_cf_yield(metrics)]
      [] method = "filter_positive_earnings" -> [w |-> w, ret |-> filter_positive_earnings(metrics)]


----------------------------------------------------------------------------
(* Screener._calculate_score and Screener._apply_filters *)

ResultAt(filter_results, hits) ==
    IF hits = {} THEN None ELSE Some(filter_results[CHOOSE i \in hits : TRUE].result)

\* filter_results.get(key) on the insertion-ordered dict, a sequence of
\* [key, result] entries with distinct keys
ResultGet(filter_results, key) ==
    ResultAt(filter_results, {i \in 1..Len(filter_results) : filter_results[i].key = key})

\* truthiness of an Optional[float]: None and 0.0 are falsy
NonZero(o) == o # None /\ Val(o).n # 0

\* "ROIC contribution (0-30 points)"
roic_score(metrics) ==
    IF metrics.roic # None
    THEN RMin(RMul(Val(metrics.roic), R(100)), R(30))
    ELSE R(0)

\* discount = (threshold - value) / threshold; max(0, min(discount * 40, 20))
PeDiscount(value, threshold) ==
    RMax(R(0), RMin(RMul(RDiv(RSub(threshold, value), threshold), R(40)), R(20)))

\* "if pe_result and pe_result.value and pe_result.threshold"
PeResultScore(pe_result) ==
    IF pe_result # None /\ NonZero(Val(pe_result).value) /\ NonZero(Val(pe_result).threshold)
    THEN PeDiscount(Val(Val(pe_result).value), Val(Val(pe_result).threshold))
    ELSE R(0)

\* "PE discount contribution (0-20 points)"
pe_score(filter_results) == PeResultScore(ResultGet(filter_results, "pe_below_max"))

\* "CF yield contribution (0-20 points)"
cf_score(metrics) ==
    IF metrics.cf_yield # None
    THEN RMin(RMul(Val(metrics.cf_yield), R(100)), R(20))
    ELSE R(0)

\* "Low debt contribution (0-15 points)"
de_score(metrics) ==
    IF metrics.debt_to_equity # None
    THEN RMax(R(0), RSub(R(15), RMul(Val(metrics.debt_to_equity), R(30))))
    ELSE R(0)

\* growth_data.get(key, 0): an absent key counts as 0
GetOrZero(o) == IF o = None THEN 0 ELSE Val(o)

\* "Growth consistency (0-15 points)"
growth_score(growth_data) ==
    RMin(RMul(R(GetOrZero(growth_data.revenue_growth_years)
                + GetOrZero(growth_data.earnings_growth_years)), Rat(3, 2)),
         R(15))

\* Screener._calculate_score
_calculate_score(metrics, growth_data, filter_results) ==
    RAdd(RAdd(RAdd(RAdd(roic_score(metrics), pe_score(filter_results)),
                   cf_score(metrics)), de_score(metrics)), growth_score(growth_data))

\* the eight assignments of _apply_filters, in program order: the dict key
\* written, the StockFilters method called and the growth_data key passed
FilterCalls ==
    << [key |-> "pe_below_max",      method |-> "filter_pe_below_max",      arg |-> ""],
       [key |-> "roic_consistent",   method |-> "filter_roic_consistent",   arg |-> ""],
       [key |-> "revenue_growth",    method |-> "filter_revenue_growth",    arg |-> "revenue_growth_years"],
       [key |-> "earnings_growth",   method |-> "filter_earnings_growth",   arg |-> "earnings_growth_years"],
       [key |-> "debt_to_equity",    method |-> "filter_debt_to_equity",    arg |-> ""],
       [key |-> "positive_fcf",      method |-> "filter_positive_fcf",      arg |-> ""],
       [key |-> "cf_yield",          method |-> "filter_cf_yield",          arg |-> ""],
       [key |-> "positive_earnings", method |-> "filter_positive_earnings", arg |-> ""] >>

\* growth_data.get(key)
GrowthGet(growth_data, key) ==
    CASE key = "revenue_growth_years"  -> growth_data.revenue_growth_years
      [] key = "earnings_growth_years" -> growth_data.earnings_growth_years
      [] OTHER -> None

RECURSIVE RunFilterCalls(_, _, _, _, _)

\* filter_results[key] = r, then the assignments that follow the k-th
Assigned(k, r, metrics, growth_data, acc) ==
    RunFilterCalls(k + 1, r.w, metrics, growth_data,
                   Append(acc, [key |-> FilterCalls[k].key, result |-> r.ret]))

\* the assignments from the k-th on; attribute lookup of a method the class
\* does not define raises AttributeError and nothing later runs
RunFilterCalls(k, w, metrics, growth_data, acc) ==
    IF k > Len(FilterCalls)
    THEN [w |-> w, raised |-> None, filter_results |-> acc]
    ELSE IF FilterCalls[k].method \notin StockFiltersMethods
    THEN [w |-> w, raised |-> Some("AttributeError"), filter_results |-> acc]
    ELSE Assigned(k, Invoke(FilterCalls[k].method, w, metrics,
                            GrowthGet(growth_data, FilterCalls[k].arg)),
                  metrics, growth_data, acc)

\* ScreeningResult.passed_count
passed_count(result) ==
    Cardinality({i \in 1..Len(result.filter_results) : result.filter_results[i].result.passed})

\* ScreeningResult.total_filters
total_filters(result) == Len(result.filter_results)

\* the tail of _apply_filters: passed_all, the score, the growth fields written
\* back into metrics, and the ScreeningResult
NewScreeningResult(metrics, growth_data, filter_results) ==
    [metrics        |-> [metrics EXCEPT
                           !.revenue_growth_years = growth_data.revenue_growth_years,
                           !.earnings_growth_years = growth_data.earnings_growth_years],
     passed_all     |-> \A i \in 1..Len(filter_results) : filter_results[i].result.passed,
     filter_results |-> filter_results,
     score          |-> _calculate_score(metrics, growth_data, filter_results)]

AfterFilterCalls(run, metrics, growth_data) ==
    IF run.raised # None
    THEN [w |-> run.w, raised |-> run.raised, result |-> None]
    ELSE [w |-> run.w, raised |-> None,
          result |-> Some(NewScreeningResult(metrics, growth_data, run.filter_results))]

\* _apply_filters with an add_company call slipped in ahead of the criteria
_apply_filters_pooling(w, metrics, growth_data) ==
    AfterFilterCalls(
        RunFilterCalls(1, [w EXCEPT !.ia = add_company(@, metrics.industry, metrics.sector,
                                                       metrics.pe_ratio)],
                       metrics, growth_data, << >>),
        metrics, growth_data)

\* Screener._apply_filters(metrics, growth_data):
\* [w |-> world after, raised |-> exception or None, result |-> ScreeningResult or None]
_apply_filters(w, metrics, growth_data) ==
    AfterFilterCalls(RunFilterCalls(1, w, metrics, growth_data, << >>), metrics, growth_data)

\* passed.sort(key=lambda r: r.score, reverse=True): stable, highest score first
RECURSIVE InsertByScore(_, _)
InsertByScore(x, s) ==
    IF s = << >> THEN <<x>>
    ELSE IF RLt(x.score, Head(s).score) THEN <<Head(s)>> \o InsertByScore(x, Tail(s))
    ELSE <<x>> \o s

RECURSIVE sort_by_score(_)
sort_by_score(s) ==
    IF s = << >> THEN << >> ELSE InsertByScore(Head(s), sort_by_score(Tail(s)))

MeetsMinimum(r, minimum) == passed_count(r) >= minimum

\* step 6 of Screener.run
passed_list(res, minimum) ==
    sort_by_score(SelectSeq(res, LAMBDA r : MeetsMinimum(r, minimum)))

----------------------------------------------------------------------------
(* Initial state: a Screener just constructed, run not entered *)

NoCall == [op |-> "", industry |-> None, sector |-> None, pe |-> None, ret |-> None]

\* Screener.__init__: self.industry_averages = IndustryAverages(); nothing cached
InitPool ==
    /\ industry_averages = NewIndustryAverages
    /\ cache = None
    /\ cache_writes = 0
    /\ loaded = FALSE
    /\ call = NoCall
    /\ nadds = 0
    /\ nreads = 0

\* Screener.__init__: self.filters = None; run has not been entered
InitIdle ==
    /\ pc = "idle"
    /\ min_filters = 8
    /\ universe = << >>
    /\ idx = 0
    /\ all_metrics = << >>
    /\ filters = None
    /\ results = << >>
    /\ outcome = None

Init == InitPool /\ InitIdle

SetWorld(w) ==
    /\ industry_averages' = w.ia
    /\ cache' = w.cache
    /\ cache_writes' = w.cache_writes
    /\ UNCHANGED loaded

AddCall(industry, sector, pe) ==
    [op |-> "add_company", industry |-> industry, sector |-> sector, pe |-> pe, ret |-> None]

----------------------------------------------------------------------------
(* Screener.run, one stage or one loop iteration per step *)

\* bound of the exploration: companies the exchanges list
MaxCompanies == 3

SeqsUpTo(S, n) == UNION {[1..k -> S] : k \in 0..n}

\* what the fetchers and calculators give for one listed company: whether
\* fetch_financials returned data, whether MetricsCalculator / GrowthAnalyzer
\* raised, and otherwise the metrics and growth_data they produced
Company(ticker, has_data, calc_raises, metrics, rev, earn) ==
    [ticker |-> ticker, has_data |-> has_data, calc_raises |-> calc_raises,
     metrics |-> [metrics EXCEPT !.ticker = ticker],
     growth_data |-> [revenue_growth_years |-> Some(rev), earnings_growth_years |-> Some(earn)]]

StrongMetrics ==
    [BlankMetrics EXCEPT
        !.industry = Some("Software"), !.sector = Some("Technology"),
        !.pe_ratio = Some(R(8)), !.roic = Some(Rat(12, 100)),
        !.roic_history = Some(<<Rat(12, 100), Rat(12, 100), Rat(10, 100)>>),
        !.debt_to_equity = Some(Rat(1, 4)), !.free_cash_flow = Some(R(5)),
        !.cf_yield = Some(Rat(6, 100)), !.ttm_earnings = Some(R(7)),
        !.has_positive_earnings = TRUE, !.data_complete = TRUE]

PriceyMetrics ==
    [BlankMetrics EXCEPT
        !.industry = Some("Software"), !.sector = Some("Technology"),
        !.pe_ratio = Some(R(200)), !.roic = Some(Rat(5, 100)),
        !.roic_history = Some(<<Rat(5, 100)>>),
        !.debt_to_equity = Some(R(2)), !.free_cash_flow = Some(R(-5)),
        !.cf_yield = Some(Rat(-2, 100)), !.ttm_earnings = Some(R(7)),
        !.has_positive_earnings = TRUE, !.data_complete = TRUE]

SparseMetrics == [BlankMetrics EXCEPT !.sector = Some("Technology")]

Companies ==
    { Company("NODATA", FALSE, FALSE, BlankMetrics, 0, 0),
      Company("BROKEN", TRUE, TRUE, BlankMetrics, 0, 0),
      Company("STRONG", TRUE, FALSE, StrongMetrics, 3, 4),
      Company("PRICEY", TRUE, FALSE, PriceyMetrics, 0, 1),
      Company("SPARSE", TRUE, FALSE, SparseMetrics, 0, 0) }

MinFilterChoices == {8, 6}

\* run(exchanges, progress_callback, min_filters) up to step 1: the company list
Run(mf, companies) ==
    /\ pc = "idle"
    /\ pc' = "fetch_metrics"
    /\ min_filters' = mf
    /\ universe' = companies
    /\ idx' = 1
    /\ all_metrics' = << >>
    /\ UNCHANGED <<filters, results, outcome>>
    /\ UNCHANGED <<poolVars, callVars>>

\* one iteration of the loop of _fetch_and_calculate_metrics, or its return
FetchAndCalculateMetrics ==
    /\ pc = "fetch_metrics"
    /\ IF idx <= Len(universe)
       THEN /\ all_metrics' =
                 IF universe[idx].has_data /\ ~universe[idx].calc_raises
                 THEN Append(all_metrics, [metrics |-> universe[idx].metrics,
                                           growth_data |-> universe[idx].growth_data])
                 ELSE all_metrics
            /\ idx' = idx + 1
            /\ pc' = pc
       ELSE /\ pc' = "build_averages"
            /\ idx' = 1
            /\ UNCHANGED all_metrics
    /\ UNCHANGED <<min_filters, universe, filters, results, outcome>>
    /\ UNCHANGED <<poolVars, callVars>>

\* one iteration of the loop of _build_industry_averages, or its return
BuildIndustryAverages ==
    /\ pc = "build_averages"
    /\ IF idx <= Len(all_metrics)
       THEN /\ industry_averages' =
                 add_company(industry_averages, all_metrics[idx].metrics.industry,
                             all_metrics[idx].metrics.sector, all_metrics[idx].metrics.pe_ratio)
            /\ call' = AddCall(all_metrics[idx].metrics.industry,
                               all_metrics[idx].metrics.sector,
                               all_metrics[idx].metrics.pe_ratio)
            /\ nadds' = nadds + 1
            /\ nreads' = 0
            /\ idx' = idx + 1
            /\ pc' = pc
       ELSE /\ pc' = "init_filters"
            /\ idx' = 1
            /\ UNCHANGED <<industry_averages, callVars>>
    /\ UNCHANGED <<cache, cache_writes, loaded>>
    /\ UNCHANGED <<min_filters, universe, all_metrics, filters, results, outcome>>

\* step 4 of run: self.filters = StockFilters(self.industry_averages)
InitializeFilters ==
    /\ pc = "init_filters"
    /\ filters' = Some("StockFilters")
    /\ pc' = "screen"
    /\ idx' = 1
    /\ results' = << >>
    /\ UNCHANGED <<min_filters, universe, all_metrics, outcome>>
    /\ UNCHANGED <<poolVars, callVars>>

\* results.append(self._apply_filters(metrics, growth_data)) given what the call
\* did: an exception leaves _screen_companies and run; the ScreeningResult holds
\* the very metrics object of the all_metrics entry, growth fields written back
Screened(r) ==
    /\ SetWorld(r.w)
    /\ IF r.raised # None
       THEN /\ pc' = "raised"
            /\ outcome' = Some([kind |-> "raised", exc |-> Val(r.raised), list |-> << >>])
            /\ UNCHANGED <<idx, results, all_metrics>>
       ELSE /\ results' = Append(results, Val(r.result))
            /\ all_metrics' = [all_metrics EXCEPT ![idx].metrics = Val(r.result).metrics]
            /\ idx' = idx + 1
            /\ UNCHANGED <<pc, outcome>>

\* one iteration of the loop of _screen_companies, or its return
ScreenCompanies ==
    /\ pc = "screen"
    /\ IF idx <= Len(all_metrics)
       THEN Screened(_apply_filters(World, all_metrics[idx].metrics,
                                    all_metrics[idx].growth_data))
       ELSE /\ pc' = "sort"
            /\ UNCHANGED <<idx, results, all_metrics, outcome, poolVars>>
    /\ UNCHANGED <<min_filters, universe, filters>>
    /\ UNCHANGED callVars

\* step 6 of run: select, sort, return
SortAndReturn ==
    /\ pc = "sort"
    /\ outcome' = Some([kind |-> "returned", exc |-> "",
                        list |-> passed_list(results, min_filters)])
    /\ pc' = "done"
    /\ UNCHANGED <<min_filters, universe, idx, all_metrics, filters, results>>
    /\ UNCHANGED <<poolVars, callVars>>

Next ==
    \/ \E mf \in MinFilterChoices, companies \in SeqsUpTo(Companies, MaxCompanies) :
          Run(mf, companies)
    \/ FetchAndCalculateMetrics
    \/ BuildIndustryAverages
    \/ InitializeFilters
    \/ ScreenCompanies
    \/ SortAndReturn

Spec == Init /\ [][Next]_vars

----------------------------------------------------------------------------
(* Calls made directly on one IndustryAverages object *)

\* bounds of the exploration: add_company calls made on one object, and reads
\* made between two of them
MaxAdds == 3
MaxReads == 2

IndustryLabels == {None, Some(""), Some("Software")}
SectorLabels == {None, Some("Technology")}
PEValues == {None, Some(R(0)), Some(R(8)), Some(R(200)), Some(R(201))}

AddCompany(industry, sector, pe) ==
    /\ nadds < MaxAdds
    /\ industry_averages' = add_company(industry_averages, industry, sector, pe)
    /\ nadds' = nadds + 1
    /\ nreads' = 0
    /\ call' = AddCall(industry, sector, pe)
    /\ UNCHANGED <<cache, cache_writes, loaded>>
    /\ UNCHANGED runVars

\* a read through one of the three getters, r being what the getter did
Read(op, industry, sector, r) ==
    /\ nreads < MaxReads
    /\ SetWorld(r.w)
    /\ call' = [op |-> op, industry |-> industry, sector |-> sector, pe |-> None,
                ret |-> r.ret]
    /\ nreads' = nreads + 1
    /\ UNCHANGED nadds
    /\ UNCHANGED runVars

GetIndustryAverage(industry) ==
    Read("get_industry_average", industry, None, get_industry_average(World, industry))

GetSectorAverage(sector) ==
    Read("get_sector_average", None, sector, get_sector_average(World, sector))

GetPeerAverage(industry, sector) ==
    Read("get_peer_average", industry, sector, get_peer_average(World, industry, sector))

NextAverages ==
    \/ \E i \in IndustryLabels, s \in SectorLabels, pe \in PEValues : AddCompany(i, s, pe)
    \/ \E i \in IndustryLabels : GetIndustryAverage(i)
    \/ \E s \in SectorLabels : GetSectorAverage(s)
    \/ \E i \in IndustryLabels, s \in SectorLabels : GetPeerAverage(i, s)

SpecAverages == Init /\ [][NextAverages]_vars

----------------------------------------------------------------------------
(* One call on a StockFilters object over a pool that add_company built.   *)
(* The criteria keep no state of their own, so a behaviour is: build the   *)
(* pool, possibly read it once, make one call.                             *)

\* bounds of the exploration
MaxPeers == 2
MaxHistory == 4
MaxGrowthYears == 4

PeerChoices ==
    { [industry |-> Some("Software"), sector |-> Some("Technology"), pe |-> Some(R(8))],
      [industry |-> Some("Software"), sector |-> Some("Technology"), pe |-> Some(R(15))],
      [industry |-> None,             sector |-> Some("Technology"), pe |-> Some(R(30))],
      [industry |-> Some("Software"), sector |-> None,               pe |-> Some(R(201))] }

\* _build_industry_averages over a list of peers
RECURSIVE BuildPool(_, _)
BuildPool(ia, peers) ==
    IF peers = << >> THEN ia
    ELSE BuildPool(add_company(ia, Head(peers).industry, Head(peers).sector, Head(peers).pe),
                   Tail(peers))

FilterPEs == {None, Some(R(8)), Some(Rat(23, 2)), Some(R(15)), Some(R(20)), Some(R(30))}
RoicValues == {Rat(-10, 100), Rat(5, 100), Rat(10, 100), Rat(12, 100)}
RoicHistories == {None} \cup {Some(h) : h \in SeqsUpTo(RoicValues, MaxHistory)}
GrowthYears == {None} \cup {Some(k) : k \in 0..MaxGrowthYears}
DebtToEquityValues ==
    {None, Some(Rat(-1, 2)), Some(R(0)), Some(Rat(1, 4)), Some(R(1)), Some(R(2))}
FcfValues == {None, Some(R(-5)), Some(R(0)), Some(R(5))}
CfYieldValues ==
    {None, Some(Rat(-2, 100)), Some(Rat(4, 100)), Some(Rat(5, 100)), Some(Rat(6, 100)),
     Some(Rat(30, 100))}
EarningsValues == {None, Some(R(-7)), Some(R(0)), Some(R(7))}

\* the pool as the world [ia, cache, cache_writes], read once or not yet read
PoolWorld(ia, read) ==
    IF read
    THEN get_peer_average([ia |-> ia, cache |-> None, cache_writes |-> 0], None, None).w
    ELSE [ia |-> ia, cache |-> None, cache_writes |-> 0]

InitWorld(w) ==
    /\ industry_averages = w.ia
    /\ cache = w.cache
    /\ cache_writes = w.cache_writes
    /\ loaded = FALSE

InitFilters ==
    /\ \E peers \in SeqsUpTo(PeerChoices, MaxPeers), read \in BOOLEAN :
          InitWorld(PoolWorld(BuildPool(NewIndustryAverages, peers), read))
    /\ call = NoCall
    /\ nadds = 0
    /\ nreads = 0
    /\ InitIdle

FilterCall(op, metrics, gy, ret) ==
    [op |-> op, metrics |-> metrics, growth_years |-> gy, ret |-> ret]

\* no call has been made on the object yet
Fresh == call = NoCall

\* a criterion called with metrics (and growth years gy); r is what it did
Called(op, metrics, gy, r) ==
    /\ SetWorld(r.w)
    /\ call' = FilterCall(op, metrics, gy, r.ret)
    /\ UNCHANGED <<nadds, nreads>>
    /\ UNCHANGED runVars

Pure(w, ret) == [w |-> w, ret |-> ret]

WithPe(industry, sector, pe) ==
    [BlankMetrics EXCEPT !.industry = industry, !.sector = sector, !.pe_ratio = pe]

\* StockFilters(industry_averages).filter_pe_below_industry(metrics)
FilterPe(industry, sector, pe) ==
    Called("filter_pe_below_industry", WithPe(industry, sector, pe), None,
           filter_pe_below_industry(World, WithPe(industry, sector, pe)))

\* the way calculate_all fills roic from roic_history
WithHistory(h) ==
    [BlankMetrics EXCEPT !.roic_history = h,
                         !.roic = IF h # None /\ Val(h) # << >> THEN Some(Val(h)[1]) ELSE None]

FilterRoic(h) ==
    Called("filter_roic_consistent", WithHistory(h), None,
           Pure(World, filter_roic_consistent(WithHistory(h))))

FilterRevenueGrowth(gy) ==
    Called("filter_revenue_growth", BlankMetrics, gy,
           Pure(World, filter_revenue_growth(BlankMetrics, gy)))

FilterEarningsGrowth(gy) ==
    Called("filter_earnings_growth", BlankMetrics, gy,
           Pure(World, filter_earnings_growth(BlankMetrics, gy)))

WithDebtToEquity(de) == [BlankMetrics EXCEPT !.debt_to_equity = de]

FilterDebtToEquity(de) ==
    Called("filter_debt_to_equity", WithDebtToEquity(de), None,
           Pure(World, filter_debt_to_equity(WithDebtToEquity(de))))

WithFcf(fcf) == [BlankMetrics EXCEPT !.free_cash_flow = fcf]

FilterPositiveFcf(fcf) ==
    Called("filter_positive_fcf", WithFcf(fcf), None,
           Pure(World, filter_positive_fcf(WithFcf(fcf))))

WithCfYield(y) == [BlankMetrics EXCEPT !.cf_yield = y]

FilterCfYield(y) ==
    Called("filter_cf_yield", WithCfYield(y), None,
           Pure(World, filter_cf_yield(WithCfYield(y))))

\* the way calculate_all fills has_positive_earnings from ttm_earnings
WithEarnings(e) ==
    [BlankMetrics EXCEPT !.ttm_earnings = e,
                         !.has_positive_earnings = has_positive_earnings(e)]

FilterPositiveEarnings(e) ==
    Called("filter_positive_earnings", WithEarnings(e), None,
           Pure(World, filter_positive_earnings(WithEarnings(e))))

NextFilters ==
    \/ Fresh /\ \E i \in IndustryLabels, s \in SectorLabels, pe \in FilterPEs : FilterPe(i, s, pe)
    \/ Fresh /\ \E h \in RoicHistories : FilterRoic(h)
    \/ Fresh /\ \E gy \in GrowthYears : FilterRevenueGrowth(gy)
    \/ Fresh /\ \E gy \in GrowthYears : FilterEarningsGrowth(gy)
    \/ Fresh /\ \E de \in DebtToEquityValues : FilterDebtToEquity(de)
    \/ Fresh /\ \E fcf \in FcfValues : FilterPositiveFcf(fcf)
    \/ Fresh /\ \E y \in CfYieldValues : FilterCfYield(y)
    \/ Fresh /\ \E e \in EarningsValues : FilterPositiveEarnings(e)

SpecFilters == InitFilters /\ [][NextFilters]_vars

----------------------------------------------------------------------------
(* One call of Screener._calculate_score, a function of its arguments *)

ScoreRoics == {None, Some(Rat(-10, 100)), Some(Rat(12, 100)), Some(Rat(45, 100))}
ScoreCfYields == {None, Some(Rat(-2, 100)), Some(Rat(6, 100)), Some(Rat(30, 100))}
ScoreDebtToEquity == {None, Some(Rat(-1, 2)), Some(R(0)), Some(Rat(1, 4)), Some(R(2))}
ScoreGrowthYears == {None, Some(0), Some(3), Some(6)}

\* what may sit under the key "pe_below_max": nothing, or a PE criterion's result
ScorePeResults ==
    { << >>,
      << [key |-> "pe_below_max",
          result |-> FilterResult(FALSE, "PE ratio not available", None, None)] >>,
      << [key |-> "pe_below_max",
          result |-> FilterResult(TRUE, "PE compared with industry avg",
                                  Some(R(8)), Some(R(30)))] >>,
      << [key |-> "pe_below_max",
          result |-> FilterResult(TRUE, "PE compared with industry avg",
                                  Some(R(15)), Some(R(20)))] >>,
      << [key |-> "pe_below_max",
          result |-> FilterResult(FALSE, "PE compared with industry avg",
                                  Some(R(30)), Some(R(20)))] >> }

ScoreMetrics(roic, y, de) ==
    [BlankMetrics EXCEPT !.roic = roic, !.cf_yield = y, !.debt_to_equity = de]

ScoreCall(metrics, growth_data, filter_results) ==
    [op |-> "_calculate_score", metrics |-> metrics, growth_data |-> growth_data,
     filter_results |-> filter_results,
     ret |-> _calculate_score(metrics, growth_data, filter_results)]

CalculateScore(roic, y, de, rev, earn, filter_results) ==
    /\ call' = ScoreCall(ScoreMetrics(roic, y, de),
                         [revenue_growth_years |-> rev, earnings_growth_years |-> earn],
                         filter_results)
    /\ UNCHANGED <<poolVars, nadds, nreads>>
    /\ UNCHANGED runVars

NextScore ==
    Fresh /\ \E roic \in ScoreRoics, y \in ScoreCfYields, de \in ScoreDebtToEquity,
                rev \in ScoreGrowthYears, earn \in ScoreGrowthYears,
                filter_results \in ScorePeResults :
                   CalculateScore(roic, y, de, rev, earn, filter_results)

SpecScore == Init /\ [][NextScore]_vars

----------------------------------------------------------------------------
(* Properties of Screener.run (specification Spec) *)

\* C1: run never aborts because of one company: whenever financial data was
\* fetched for at least one company, run does not end in an exception, and when
\* it has ended it has returned a list and screened every company whose metrics
\* were calculated.
C1_RunNeverAborts ==
    (\E i \in 1..Len(universe) : universe[i].has_data) =>
        /\ pc # "raised"
        /\ pc = "done" => /\ Val(outcome).kind = "returned"
                          /\ Len(results) = Len(all_metrics)

\* the criteria in the order the ScreeningResult is to hold them
CriteriaInOrder ==
    << "filter_pe_below_industry", "filter_roic_consistent", "filter_revenue_growth",
       "filter_earnings_growth", "filter_debt_to_equity", "filter_positive_fcf",
       "filter_cf_yield", "filter_positive_earnings" >>

\* the number of companies _apply_filters has been called for
ReachedFiltering ==
    CASE pc = "screen"            -> idx - 1
      [] pc = "raised"            -> idx
      [] pc \in {"sort", "done"}  -> Len(all_metrics)
      [] OTHER                    -> 0

EightInOrder(result, entry) ==
    /\ Len(result.filter_results) = 8
    /\ \A k \in 1..8 :
          result.filter_results[k].result =
             Invoke(CriteriaInOrder[k], World, entry.metrics,
                    GrowthGet(entry.growth_data, FilterCalls[k].arg)).ret
    /\ total_filters(result) = 8
    /\ result.passed_all <=> passed_count(result) = 8

\* C2: every company that reaches filtering gets a ScreeningResult whose
\* filter_results holds exactly the 8 criteria's results in the fixed order, so
\* that total_filters = 8 and passed_all holds iff passed_count = 8.
C2_EightFilterResults ==
    /\ Len(results) = ReachedFiltering
    /\ \A i \in 1..Len(results) : EightInOrder(results[i], all_metrics[i])

\* list holds exactly the members of res that meet the minimum, highest score
\* first, members of equal score in the order they have in res
IsRanking(list, res, minimum) ==
    \E p \in [1..Len(list) -> 1..Len(res)] :
        /\ \A k \in 1..Len(list) : list[k] = res[p[k]] /\ MeetsMinimum(res[p[k]], minimum)
        /\ \A i \in 1..Len(res) : MeetsMinimum(res[i], minimum) => \E k \in 1..Len(list) : p[k] = i
        /\ \A k, l \in 1..Len(list) :
              k < l => /\ p[k] # p[l]
                       /\ RLe(list[l].score, list[k].score)
                       /\ list[k].score = list[l].score => p[k] < p[l]

\* C3: when run has ended it has returned exactly the screened companies whose
\* passed-filter count is at least min_filters, ordered by score descending,
\* equal scores in input order.
C3_ReturnedRanking ==
    pc \in {"done", "raised"} =>
        /\ Val(outcome).kind = "returned"
        /\ Len(results) = Len(all_metrics)
        /\ IsRanking(Val(outcome).list, results, min_filters)

----------------------------------------------------------------------------
(* Properties of the StockFilters criteria (specification SpecFilters) *)

\* the required input of the criterion called is unknown
UnknownInput(c) ==
    CASE c.op = "filter_pe_below_industry" -> c.metrics.pe_ratio = None
      [] c.op = "filter_roic_consistent"   -> \/ c.metrics.roic_history = None
                                              \/ Val(c.metrics.roic_history) = << >>
      [] c.op = "filter_revenue_growth"    -> c.growth_years = None
      [] c.op = "filter_earnings_growth"   -> c.growth_years = None
      [] c.op = "filter_debt_to_equity"    -> c.metrics.debt_to_equity = None
      [] c.op = "filter_positive_fcf"      -> c.metrics.free_cash_flow = None
      [] c.op = "filter_cf_yield"          -> c.metrics.cf_yield = None
      [] c.op = "filter_positive_earnings" -> c.metrics.ttm_earnings = None
      [] OTHER                             -> FALSE

\* C4: fail-closed: a criterion whose required input is unknown returns
\* passed = false, also where the number zero in its place would have passed.
C4_FailClosed == UnknownInput(call) => ~call.ret.passed

\* the D/E criterion was called without a ratio (zero would pass) and failed
C4_Witness ==
    /\ call.op = "filter_debt_to_equity"
    /\ call.metrics.debt_to_equity = None
    /\ ~call.ret.passed

\* the label has accepted observations pooled
HasObservations(buckets, label) ==
    Truthy(label) /\ Val(label) \in DOMAIN buckets /\ buckets[Val(label)] # << >>

CountBelow(b, v) == Cardinality({k \in 1..Len(b) : RLt(b[k], v)})
CountAbove(b, v) == Cardinality({k \in 1..Len(b) : RLt(v, b[k])})

\* v is the median of the non-empty list b: the middle element for an odd
\* count, the mean of the two central elements for an even count
IsMedian(v, b) ==
    IF Len(b) % 2 = 1
    THEN \E i \in 1..Len(b) :
            /\ v = b[i]
            /\ CountBelow(b, v) <= Len(b) \div 2
            /\ CountAbove(b, v) <= Len(b) \div 2
    ELSE \E i, j \in 1..Len(b) :
            /\ i # j
            /\ RLe(b[i], b[j])
            /\ v = RDiv(RAdd(b[i], b[j]), R(2))
            /\ CountBelow(b, b[i]) <= Len(b) \div 2 - 1
            /\ CountAbove(b, b[i]) <= Len(b) \div 2
            /\ CountBelow(b, b[j]) <= Len(b) \div 2
            /\ CountAbove(b, b[j]) <= Len(b) \div 2 - 1

\* t is the peer value of (industry, sector): the industry's median if it has
\* one, otherwise the sector's, otherwise 20
IsPeerValue(t, ia, industry, sector) ==
    IF HasObservations(ia.pe_by_industry, industry)
    THEN IsMedian(t, ia.pe_by_industry[Val(industry)])
    ELSE IF HasObservations(ia.pe_by_sector, sector)
    THEN IsMedian(t, ia.pe_by_sector[Val(sector)])
    ELSE t = R(20)

\* C5: the PE criterion fails when pe_ratio is unknown; otherwise its threshold
\* is the industry median, else the sector median, else 20, its value is
\* pe_ratio, and it passes iff pe_ratio is strictly below the threshold.
C5_PeAgainstPeer ==
    call.op = "filter_pe_below_industry" =>
        IF call.metrics.pe_ratio = None
        THEN ~call.ret.passed
        ELSE /\ call.ret.value = call.metrics.pe_ratio
             /\ call.ret.threshold # None
             /\ IsPeerValue(Val(call.ret.threshold), industry_averages,
                            call.metrics.industry, call.metrics.sector)
             /\ call.ret.passed <=> RLt(Val(call.metrics.pe_ratio), Val(call.ret.threshold))

\* a PE equal to the median 23/2 of the industry's pool [8, 15] did not pass
C5_Witness ==
    /\ call.op = "filter_pe_below_industry"
    /\ call.metrics.pe_ratio = Some(Rat(23, 2))
    /\ call.ret.threshold = Some(Rat(23, 2))
    /\ ~call.ret.passed

----------------------------------------------------------------------------
(* Properties of the IndustryAverages object (specification SpecAverages) *)

\* ret is what a read of the label is to serve from the buckets
ServedFrom(buckets, label, ret) ==
    IF HasObservations(buckets, label)
    THEN ret # None /\ IsMedian(Val(ret), buckets[Val(label)])
    ELSE ret = None

\* C6: the value a read serves for a label is the median of the accepted
\* observations pooled so far for that label, and unknown for a label with
\* none; the peer read serves the industry's value if there is one, else the
\* sector's.
C6_ServedMedian ==
    /\ call.op = "get_industry_average" =>
          ServedFrom(industry_averages.pe_by_industry, call.industry, call.ret)
    /\ call.op = "get_sector_average" =>
          ServedFrom(industry_averages.pe_by_sector, call.sector, call.ret)
    /\ call.op = "get_peer_average" =>
          IF HasObservations(industry_averages.pe_by_industry, call.industry)
          THEN ServedFrom(industry_averages.pe_by_industry, call.industry, call.ret)
          ELSE ServedFrom(industry_averages.pe_by_sector, call.sector, call.ret)

\* a read after the second accepted observation, with a read before it, served
\* the mean 104 of the pool [8, 200] or [200, 8]
C6_Witness ==
    /\ call.op = "get_peer_average"
    /\ call.ret = Some(R(104))
    /\ cache_writes = 2

\* buckets2 is buckets with pe appended to the label's list
AppendedTo(buckets2, buckets, label, pe) ==
    /\ DOMAIN buckets2 = DOMAIN buckets \cup {label}
    /\ \A k \in DOMAIN buckets : k # label => buckets2[k] = buckets[k]
    /\ buckets2[label] = (IF label \in DOMAIN buckets THEN buckets[label] ELSE << >>) \o <<pe>>

\* the effect of add_company(industry, sector, pe) taking ia to ia2
AddEffect(ia, ia2, industry, sector, pe) ==
    IF pe = None \/ RLe(Val(pe), R(0)) \/ RLt(R(200), Val(pe))
    THEN ia2 = ia
    ELSE /\ IF Truthy(industry)
            THEN AppendedTo(ia2.pe_by_industry, ia.pe_by_industry, Val(industry), Val(pe))
            ELSE ia2.pe_by_industry = ia.pe_by_industry
         /\ IF Truthy(sector)
            THEN AppendedTo(ia2.pe_by_sector, ia.pe_by_sector, Val(sector), Val(pe))
            ELSE ia2.pe_by_sector = ia.pe_by_sector
         /\ ~ia2.averages_calculated
         /\ ia2.industry_avg = ia.industry_avg
         /\ ia2.sector_avg = ia.sector_avg

\* C7: add_company with pe unknown, <= 0 or > 200 changes nothing of the
\* object; with 0 < pe <= 200 it appends pe to the industry bucket iff an
\* industry label is given and to the sector bucket iff a sector label is
\* given, leaves the median maps alone and marks the pool dirty; the cache is
\* not touched either way.
C7_AddCompanyFrame ==
    [][ nadds' = nadds + 1 =>
          /\ AddEffect(industry_averages, industry_averages',
                       call'.industry, call'.sector, call'.pe)
          /\ cache' = cache
          /\ cache_writes' = cache_writes ]_vars

\* a PE of exactly 200 was pooled into a pool that had been read, and dirtied it
C7_Witness ==
    /\ call.op = "add_company"
    /\ call.pe = Some(R(200))
    /\ call.industry = Some("Software")
    /\ cache_writes >= 1
    /\ ~industry_averages.averages_calculated
    /\ Len(industry_averages.pe_by_industry["Software"]) >= 2

\* C8: a read on a clean pool changes neither the object nor the cache; a read
\* on a dirty pool recomputes once, writes the cache once and leaves the
\* buckets alone; only the first read after an add_company finds the pool
\* dirty; the same read repeated returns the same value.
C8_ReadsIdempotent ==
    [][ nreads' = nreads + 1 =>
          /\ nreads >= 1 => industry_averages.averages_calculated
          /\ industry_averages.averages_calculated =>
                /\ industry_averages' = industry_averages
                /\ cache' = cache
                /\ cache_writes' = cache_writes
          /\ ~industry_averages.averages_calculated =>
                /\ cache_writes' = cache_writes + 1
                /\ industry_averages'.averages_calculated
                /\ industry_averages'.pe_by_industry = industry_averages.pe_by_industry
                /\ industry_averages'.pe_by_sector = industry_averages.pe_by_sector
                /\ cache' = Some([industry |-> industry_averages'.industry_avg,
                                  sector |-> industry_averages'.sector_avg])
          /\ (/\ nreads >= 1
              /\ call'.op = call.op
              /\ call'.industry = call.industry
              /\ call'.sector = call.sector) => call'.ret = call.ret ]_vars

\* two reads since the last of two add_company calls, one cache write for each
\* of the two dirtyings, a median served
C8_Witness ==
    /\ nreads = 2
    /\ nadds = 2
    /\ cache_writes = 2
    /\ call.op = "get_peer_average"
    /\ call.ret # None

----------------------------------------------------------------------------
(* Property of the composite score (specification SpecScore) *)

\* C10: the composite score never exceeds 100, its ROIC term 30, its PE term
\* 20, its CF-yield term 20, its low-debt term 15 and its growth term 15.
C10_ScoreAtMost100 ==
    call.op = "_calculate_score" =>
        /\ RLe(call.ret, R(100))
        /\ RLe(roic_score(call.metrics), R(30))
        /\ RLe(pe_score(call.filter_results), R(20))
        /\ RLe(cf_score(call.metrics), R(20))
        /\ RLe(de_score(call.metrics), R(15))
        /\ RLe(growth_score(call.growth_data), R(15))

\* C11: every score term lies inside its documented point range (ROIC 0-30,
\* PE discount 0-20, CF yield 0-20, low debt 0-15, growth 0-15), so the
\* composite score is never negative.
C11_TermsInRange ==
    call.op = "_calculate_score" =>
        /\ RLe(R(0), call.ret)
        /\ RLe(R(0), roic_score(call.metrics)) /\ RLe(roic_score(call.metrics), R(30))
        /\ RLe(R(0), pe_score(call.filter_results)) /\ RLe(pe_score(call.filter_results), R(20))
        /\ RLe(R(0), cf_score(call.metrics)) /\ RLe(cf_score(call.metrics), R(20))
        /\ RLe(R(0), de_score(call.metrics)) /\ RLe(de_score(call.metrics), R(15))
        /\ RLe(R(0), growth_score(call.growth_data))
        /\ RLe(growth_score(call.growth_data), R(15))

----------------------------------------------------------------------------
(* The PE-discount term inside Screener.run (specification Spec) *)

\* clamp(((threshold - value) / threshold) * 40, 0, 20) for a FilterResult that
\* has a value and a nonzero threshold, 0 otherwise
PeTermOf(fr) ==
    IF fr.value # None /\ fr.threshold # None /\ Val(fr.threshold).n # 0
    THEN RMax(R(0), RMin(RMul(RDiv(RSub(Val(fr.threshold), Val(fr.value)),
                                   Val(fr.threshold)), R(40)), R(20)))
    ELSE R(0)

PeTermAgrees(result, pe_filter_result) ==
    /\ ResultGet(result.filter_results, FilterCalls[1].key) = Some(pe_filter_result)
    /\ pe_score(result.filter_results) = PeTermOf(pe_filter_result)

\* C12: for every company that reaches filtering, the result of the PE-vs-peer
\* criterion is stored under the key _apply_filters writes for it, and the
\* PE-discount term of the score is clamp(((threshold - value) / threshold) * 40,
\* 0, 20) of that result when it has a value and a nonzero threshold, else 0.
C12_PeTermFromPeFilter ==
    /\ Len(results) = ReachedFiltering
    /\ \A i \in 1..Len(results) :
          PeTermAgrees(results[i],
                       filter_pe_below_industry(World, all_metrics[i].metrics).ret)

----------------------------------------------------------------------------
(* TTMCalculator (src/src/calculations/ttm_calculator.py)                  *)
(*                                                                         *)
(* A statement is modelled as [index |-> the set of line items, cols |->   *)
(* the sequence of periods], a period being [date |-> Nat, cells |-> a     *)
(* function from the line items to Optional values]; a NaN cell is None.   *)

DataFrame(index, cols) == [index |-> index, cols |-> cols]

\* df.empty: no line item or no period
empty(df) == df.index = {} \/ df.cols = << >>

\* df.sort_index(axis=1, ascending=False): most recent period first
RECURSIVE InsertNewestFirst(_, _)
InsertNewestFirst(col, cols) ==
    IF cols = << >> THEN <<col>>
    ELSE IF col.date > Head(cols).date THEN <<col>> \o cols
    ELSE <<Head(cols)>> \o InsertNewestFirst(col, Tail(cols))

RECURSIVE SortNewestFirst(_)
SortNewestFirst(cols) ==
    IF cols = << >> THEN << >>
    ELSE InsertNewestFirst(Head(cols), SortNewestFirst(Tail(cols)))

\* TTMCalculator._parse_quarterly: "if not data" holds for None and for {}
_parse_quarterly(data) ==
    IF data = None \/ Val(data).cols = << >> THEN None
    ELSE Some(DataFrame(Val(data).index, SortNewestFirst(Val(data).cols)))

\* TTMCalculator._get_last_n_quarters(df, n)
_get_last_n_quarters(df, n) ==
    IF df = None \/ empty(Val(df)) THEN None
    ELSE IF Len(Val(df).cols) < n THEN None
    ELSE Some(DataFrame(Val(df).index, SubSeq(Val(df).cols, 1, n)))

\* quarters.loc[field].dropna(): the known values of the row, newest first
RECURSIVE dropna(_, _)
dropna(cols, field) ==
    IF cols = << >> THEN << >>
    ELSE (IF Head(cols).cells[field] = None THEN << >> ELSE <<Val(Head(cols).cells[field])>>)
         \o dropna(Tail(cols), field)

\* values.sum()
RECURSIVE sum(_)
sum(values) == IF values = << >> THEN R(0) ELSE RAdd(Head(values), sum(Tail(values)))

\* a window that accepts a row with one value missing
SumWindow_partial(quarters, field, n) ==
    IF quarters = None THEN None
    ELSE IF field \notin Val(quarters).index THEN None
    ELSE IF Len(dropna(Val(quarters).cols, field)) < n - 1 THEN None
    ELSE Some(sum(dropna(Val(quarters).cols, field)))

\* _sum_quarters after the window was taken
SumWindow(quarters, field, n) ==
    IF quarters = None THEN None
    ELSE IF field \notin Val(quarters).index THEN None
    ELSE IF Len(dropna(Val(quarters).cols, field)) < n THEN None
    ELSE Some(sum(dropna(Val(quarters).cols, field)))

\* TTMCalculator._sum_quarters(df, field, n)
_sum_quarters(df, field, n) == SumWindow(_get_last_n_quarters(df, n), field, n)

\* Python's "a or b" on Optional[float]: a unless it is None or 0.0
Or(a, b) == IF NonZero(a) THEN a ELSE b

\* the default window of _sum_quarters and _get_last_n_quarters
TTM_QUARTERS == 4

\* TTMCalculator.get_ttm_revenue
get_ttm_revenue(quarterly_financials) ==
    _sum_quarters(quarterly_financials, "Total Revenue", TTM_QUARTERS)

\* TTMCalculator.get_ttm_net_income
get_ttm_net_income(quarterly_financials) ==
    _sum_quarters(quarterly_financials, "Net Income", TTM_QUARTERS)

\* TTMCalculator.get_ttm_operating_cashflow
get_ttm_operating_cashflow(quarterly_cashflow) ==
    Or(_sum_quarters(quarterly_cashflow, "Operating Cash Flow", TTM_QUARTERS),
       _sum_quarters(quarterly_cashflow, "Cash Flow From Continuing Operating Activities",
                     TTM_QUARTERS))

\* TTMCalculator.get_ttm_capex
get_ttm_capex(quarterly_cashflow) ==
    _sum_quarters(quarterly_cashflow, "Capital Expenditure", TTM_QUARTERS)

\* get_ttm_fcf given the three sums it reads
FcfFrom(direct_fcf, ocf, capex) ==
    IF direct_fcf # None THEN direct_fcf
    ELSE IF ocf = None THEN None
    ELSE IF capex = None THEN ocf
    ELSE IF RLt(Val(capex), R(0)) THEN Some(RAdd(Val(ocf), Val(capex)))
    ELSE Some(RSub(Val(ocf), Val(capex)))

\* TTMCalculator.get_ttm_fcf
get_ttm_fcf(quarterly_cashflow) ==
    FcfFrom(_sum_quarters(quarterly_cashflow, "Free Cash Flow", TTM_QUARTERS),
            get_ttm_operating_cashflow(quarterly_cashflow),
            get_ttm_capex(quarterly_cashflow))

----------------------------------------------------------------------------
(* One call on a TTMCalculator built from quarterly statements *)

\* bound of the exploration: quarterly periods a statement lists
MaxQuarters == 5

QuarterValues == {None, Some(R(10)), Some(R(20)), Some(R(-30))}
TTMWindows == {2, TTM_QUARTERS}
IncomeItems == {"Net Income", "Total Revenue"}

\* a raw statement with one line item and the periods dated 1..Len(values),
\* listed newest first or oldest first
OneItemStatement(item, values, newest_first) ==
    Some(DataFrame({item},
                   [q \in 1..Len(values) |->
                       [date  |-> IF newest_first THEN Len(values) + 1 - q ELSE q,
                        cells |-> [f \in {item} |-> values[q]]]]))

SumCall(data, field, n) ==
    [op |-> "_sum_quarters", data |-> data, field |-> field, n |-> n,
     ret |-> _sum_quarters(_parse_quarterly(data), field, n)]

\* TTMCalculator(financial_data)._sum_quarters(self._quarterly_financials, field, n)
SumQuarters(data, field, n) ==
    /\ call' = SumCall(data, field, n)
    /\ UNCHANGED <<poolVars, nadds, nreads>>
    /\ UNCHANGED runVars

CashflowItems ==
    {"Free Cash Flow", "Operating Cash Flow",
     "Cash Flow From Continuing Operating Activities", "Capital Expenditure"}

\* the rows a cash-flow line item may have over four quarters: not reported at
\* all (None), complete, complete and summing to zero, negative, one quarter NaN
CashflowRows ==
    { None,
      <<Some(R(10)), Some(R(20)), Some(R(30)), Some(R(40))>>,
      <<Some(R(10)), Some(R(-10)), Some(R(5)), Some(R(-5))>>,
      <<Some(R(-5)), Some(R(-5)), Some(R(-5)), Some(R(-5))>>,
      <<Some(R(10)), None, Some(R(30)), Some(R(40))>> }

Reported(rows) == {f \in DOMAIN rows : rows[f] # None}

\* the raw quarterly cash-flow statement holding the reported rows, newest first
CashflowStatement(rows) ==
    Some(DataFrame(Reported(rows),
                   [q \in 1..TTM_QUARTERS |->
                       [date  |-> TTM_QUARTERS + 1 - q,
                        cells |-> [f \in Reported(rows) |-> rows[f][q]]]]))

FcfCall(data) ==
    [op |-> "get_ttm_fcf", data |-> data, field |-> "", n |-> TTM_QUARTERS,
     ret |-> get_ttm_fcf(_parse_quarterly(data))]

\* TTMCalculator(financial_data).get_ttm_fcf()
GetTtmFcf(data) ==
    /\ call' = FcfCall(data)
    /\ UNCHANGED <<poolVars, nadds, nreads>>
    /\ UNCHANGED runVars

NextTTM ==
    \/ Fresh /\ \E item \in IncomeItems, values \in SeqsUpTo(QuarterValues, MaxQuarters),
                   newest_first \in BOOLEAN, n \in TTMWindows :
                      SumQuarters(OneItemStatement(item, values, newest_first), "Net Income", n)
    \/ Fresh /\ \E n \in TTMWindows : SumQuarters(None, "Net Income", n)
    \/ Fresh /\ \E rows \in [CashflowItems -> CashflowRows] : GetTtmFcf(CashflowStatement(rows))

SpecTTM == Init /\ [][NextTTM]_vars

----------------------------------------------------------------------------
(* Properties of TTMCalculator (specification SpecTTM) *)

\* the periods among the n most recent of a statement whose dates are 1..Len
Recent(cols, n) == {q \in 1..Len(cols) : cols[q].date > Len(cols) - n}

RECURSIVE SumCells(_, _, _)
SumCells(cols, S, field) ==
    IF S = {} THEN R(0)
    ELSE RAdd(Val(cols[CHOOSE q \in S : TRUE].cells[field]),
              SumCells(cols, S \ {CHOOSE q \in S : TRUE}, field))

\* the sum of the field over the n most recent periods if the statement has n
\* periods and the field is known in each of those, unknown otherwise
WindowSum(data, field, n) ==
    IF /\ data # None
       /\ Len(Val(data).cols) >= n
       /\ field \in Val(data).index
       /\ \A q \in Recent(Val(data).cols, n) : Val(data).cols[q].cells[field] # None
    THEN Some(SumCells(Val(data).cols, Recent(Val(data).cols, n), field))
    ELSE None

\* C13: _sum_quarters returns the sum of the field over the window most recent
\* periods iff there are at least window periods and the field is present in
\* each of them, and unknown (never a partial sum) in every other case.
C13_SumAllOrNothing ==
    call.op = "_sum_quarters" => call.ret = WindowSum(call.data, call.field, call.n)

\* five periods listed oldest first, the oldest one without the field: the
\* four most recent were summed
C13_Witness ==
    /\ call.op = "_sum_quarters"
    /\ call.n = 4
    /\ call.data # None
    /\ "Net Income" \in Val(call.data).index
    /\ Len(Val(call.data).cols) = 5
    /\ Val(call.data).cols[1].date = 1
    /\ Val(call.data).cols[1].cells["Net Income"] = None
    /\ call.ret # None

\* the TTM operating cash flow the statement holds: the sum of "Operating Cash
\* Flow" if known, else that of the alternative line item
StatementOcf(data) ==
    IF WindowSum(data, "Operating Cash Flow", TTM_QUARTERS) # None
    THEN WindowSum(data, "Operating Cash Flow", TTM_QUARTERS)
    ELSE WindowSum(data, "Cash Flow From Continuing Operating Activities", TTM_QUARTERS)

RAbs(a) == IF a.n < 0 THEN [n |-> -a.n, d |-> a.d] ELSE a

\* what get_ttm_fcf is to return given the direct sum, the operating cash flow
\* and the capex sum the statement holds; TRUE where nothing is said
FcfAsStated(ret, direct, ocf, capex) ==
    /\ direct # None => ret = direct
    /\ (direct = None /\ ocf # None /\ capex # None) =>
          ret = Some(RSub(Val(ocf), RAbs(Val(capex))))

\* C14: get_ttm_fcf returns the TTM sum of "Free Cash Flow" whenever that sum
\* is known, zero and negative included; otherwise, when the TTM operating
\* cash flow and the TTM capex are both known, operating cash flow minus the
\* absolute value of capex.
C14_FcfDirectElseDifference ==
    call.op = "get_ttm_fcf" =>
        FcfAsStated(call.ret,
                    WindowSum(call.data, "Free Cash Flow", TTM_QUARTERS),
                    StatementOcf(call.data),
                    WindowSum(call.data, "Capital Expenditure", TTM_QUARTERS))

\* C15: with no direct Free Cash Flow sum and unknown TTM capex, every known
\* TTM operating cash flow (positive, negative or exactly zero) is returned
\* unchanged by get_ttm_fcf.
C15_OcfReturnedUnchanged ==
    (/\ call.op = "get_ttm_fcf"
     /\ WindowSum(call.data, "Free Cash Flow", TTM_QUARTERS) = None
     /\ WindowSum(call.data, "Capital Expenditure", TTM_QUARTERS) = None
     /\ StatementOcf(call.data) # None)
    => call.ret = StatementOcf(call.data)

----------------------------------------------------------------------------
(* GrowthAnalyzer: derivations over the annual income statement *)

\* what a call gives back to its caller: a value, or an exception
Returned(v) == [exc |-> None, ret |-> v]
Raised(e) == [exc |-> Some(e), ret |-> None]

\* df.sort_index(axis=1, ascending=True): oldest period first
RECURSIVE InsertOldestFirst(_, _)
InsertOldestFirst(col, cols) ==
    IF cols = << >> THEN <<col>>
    ELSE IF col.date < Head(cols).date THEN <<col>> \o cols
    ELSE <<Head(cols)>> \o InsertOldestFirst(col, Tail(cols))

RECURSIVE SortOldestFirst(_)
SortOldestFirst(cols) ==
    IF cols = << >> THEN << >>
    ELSE InsertOldestFirst(Head(cols), SortOldestFirst(Tail(cols)))

\* GrowthAnalyzer._parse_annual: "if not data" holds for None and for {}
_parse_annual(data) ==
    IF data = None \/ Val(data).cols = << >> THEN None
    ELSE Some(DataFrame(Val(data).index, SortOldestFirst(Val(data).cols)))

\* GrowthAnalyzer._get_metric_series(field): the known values, oldest first
_get_metric_series(annual_financials, field) ==
    IF annual_financials = None THEN None
    ELSE IF field \notin Val(annual_financials).index THEN None
    ELSE IF dropna(Val(annual_financials).cols, field) = << >> THEN None
    ELSE Some(dropna(Val(annual_financials).cols, field))

\* series.values[::-1]
Reverse(values) == [i \in 1..Len(values) |-> values[Len(values) + 1 - i]]

\* a step that counts every increase, whatever the previous value
Grows_any(previous, current) == RLt(previous, current)

\* previous > 0 and current > previous
Grows(previous, current) == RLt(R(0), previous) /\ RLt(previous, current)

\* the for loop of count_consecutive_growth_years from position i of the
\* reversed values (1-based) up to the first break
RECURSIVE Consecutive(_, _)
Consecutive(values, i) ==
    IF i >= Len(values) THEN 0
    ELSE IF Grows(values[i + 1], values[i]) THEN 1 + Consecutive(values, i + 1)
    ELSE 0

CountFrom(series) ==
    IF series = None \/ Len(Val(series)) < 2 THEN 0
    ELSE Consecutive(Reverse(Val(series)), 1)

\* GrowthAnalyzer.count_consecutive_growth_years(field)
count_consecutive_growth_years(annual_financials, field) ==
    CountFrom(_get_metric_series(annual_financials, field))

get_revenue_growth_years(annual_financials) ==
    count_consecutive_growth_years(annual_financials, "Total Revenue")

get_earnings_growth_years(annual_financials) ==
    count_consecutive_growth_years(annual_financials, "Net Income")

\* the float (end_value / start_value) ** (1 / years) - 1, kept as the ratio
\* and the root it is taken from
Cagr(end_value, start_value, years) ==
    [ratio |-> RDiv(end_value, start_value), root |-> years]

\* a start value taken from the oldest observation
StartValue_oldest(values, years) == values[1]

\* series.iloc[-(years + 1)]
StartValue(values, years) == values[Len(values) - years]

\* series.iloc[-1]
EndValue(values) == values[Len(values)]

\* calculate_cagr from the two values on: "1 / years" raises for years = 0
CagrBetween(start_value, end_value, years) ==
    IF RLe(start_value, R(0)) \/ RLe(end_value, R(0)) THEN Returned(None)
    ELSE IF years = 0 THEN Raised("ZeroDivisionError")
    ELSE Returned(Some(Cagr(end_value, start_value, years)))

CagrFrom(series, years) ==
    IF series = None \/ Len(Val(series)) < years + 1 THEN Returned(None)
    ELSE CagrBetween(StartValue(Val(series), years), EndValue(Val(series)), years)

\* GrowthAnalyzer.calculate_cagr(field, years)
calculate_cagr(annual_financials, field, years) ==
    CagrFrom(_get_metric_series(annual_financials, field), years)

get_revenue_cagr(annual_financials, years) ==
    calculate_cagr(annual_financials, "Total Revenue", years)

get_earnings_cagr(annual_financials, years) ==
    calculate_cagr(annual_financials, "Net Income", years)

\* the dict has_consistent_growth builds; an exception of either CAGR call
\* leaves the method
GrowthDict(revenue_years, earnings_years, min_years, revenue_cagr, earnings_cagr) ==
    IF revenue_cagr.exc # None THEN revenue_cagr
    ELSE IF earnings_cagr.exc # None THEN earnings_cagr
    ELSE Returned([revenue_growth_years  |-> revenue_years,
                   earnings_growth_years |-> earnings_years,
                   revenue_consistent    |-> revenue_years >= min_years,
                   earnings_consistent   |-> earnings_years >= min_years,
                   both_consistent       |-> revenue_years >= min_years
                                             /\ earnings_years >= min_years,
                   revenue_cagr          |-> revenue_cagr.ret,
                   earnings_cagr         |-> earnings_cagr.ret])

\* GrowthAnalyzer.has_consistent_growth(min_years)
has_consistent_growth(annual_financials, min_years) ==
    GrowthDict(get_revenue_growth_years(annual_financials),
               get_earnings_growth_years(annual_financials),
               min_years,
               get_revenue_cagr(annual_financials, min_years),
               get_earnings_cagr(annual_financials, min_years))

----------------------------------------------------------------------------
(* One call on a GrowthAnalyzer built from an annual statement *)

\* bound of the exploration: annual periods a statement lists
MaxYears == 4

AnnualValues == {None, Some(R(-30)), Some(R(0)), Some(R(10)), Some(R(20))}
CagrYears == 0..3

GrowthCall(op, data, field, years, outcome_of_call) ==
    [op |-> op, data |-> data, field |-> field, years |-> years,
     exc |-> outcome_of_call.exc, ret |-> outcome_of_call.ret]

\* GrowthAnalyzer(financial_data).count_consecutive_growth_years(field)
CountConsecutiveGrowthYears(data, field) ==
    /\ call' = GrowthCall("count_consecutive_growth_years", data, field, 0,
                          Returned(count_consecutive_growth_years(_parse_annual(data), field)))
    /\ UNCHANGED <<poolVars, nadds, nreads>>
    /\ UNCHANGED runVars

\* GrowthAnalyzer(financial_data).calculate_cagr(field, years)
CalculateCagr(data, field, years) ==
    /\ call' = GrowthCall("calculate_cagr", data, field, years,
                          calculate_cagr(_parse_annual(data), field, years))
    /\ UNCHANGED <<poolVars, nadds, nreads>>
    /\ UNCHANGED runVars

\* the rows the two income line items may have over three years, oldest
\* first: not reported (None), growing, a dip, a loss first, one year NaN
AnnualRows ==
    { None,
      <<Some(R(10)), Some(R(20)), Some(R(30))>>,
      <<Some(R(20)), Some(R(10)), Some(R(30))>>,
      <<Some(R(-30)), Some(R(10)), Some(R(20))>>,
      <<Some(R(10)), None, Some(R(20))>> }

\* the number of periods of a statement with these rows
Periods(rows) ==
    IF Reported(rows) = {} THEN 0 ELSE Len(rows[CHOOSE f \in Reported(rows) : TRUE])

\* the raw annual statement holding the reported rows, oldest first
AnnualStatement(rows) ==
    Some(DataFrame(Reported(rows),
                   [q \in 1..Periods(rows) |->
                       [date  |-> q,
                        cells |-> [f \in Reported(rows) |-> rows[f][q]]]]))

\* GrowthAnalyzer(financial_data).has_consistent_growth(min_years)
HasConsistentGrowth(data, min_years) ==
    /\ call' = GrowthCall("has_consistent_growth", data, "", min_years,
                          has_consistent_growth(_parse_annual(data), min_years))
    /\ UNCHANGED <<poolVars, nadds, nreads>>
    /\ UNCHANGED runVars

NextGrowth ==
    \/ Fresh /\ \E item \in IncomeItems, values \in SeqsUpTo(AnnualValues, MaxYears),
                   newest_first \in BOOLEAN :
                      CountConsecutiveGrowthYears(
                          OneItemStatement(item, values, newest_first), "Net Income")
    \/ Fresh /\ \E item \in IncomeItems, values \in SeqsUpTo(AnnualValues, MaxYears),
                   newest_first \in BOOLEAN, years \in CagrYears :
                      CalculateCagr(OneItemStatement(item, values, newest_first),
                                    "Net Income", years)
    \/ Fresh /\ \E rows \in [IncomeItems -> AnnualRows], min_years \in CagrYears :
                      HasConsistentGrowth(AnnualStatement(rows), min_years)

SpecGrowth == Init /\ [][NextGrowth]_vars

----------------------------------------------------------------------------
(* Properties of GrowthAnalyzer (specification SpecGrowth) *)

\* the periods of the raw statement in which the field has a value
Observed(data, field) ==
    IF data = None THEN {}
    ELSE IF field \notin Val(data).index THEN {}
    ELSE {q \in 1..Len(Val(data).cols) : Val(data).cols[q].cells[field] # None}

\* how many observed points are newer than period q
Newer(data, field, q) ==
    Cardinality({p \in Observed(data, field) :
                    Val(data).cols[p].date > Val(data).cols[q].date})

\* the observed value with exactly k newer observed points (k = 0: the newest)
Back(data, field, k) ==
    Val(Val(data).cols[CHOOSE q \in Observed(data, field) : Newer(data, field, q) = k]
            .cells[field])

\* the pair of observed points k and k + 1 back from the newest is a growth step
GrowthPair(data, field, k) ==
    /\ RLt(R(0), Back(data, field, k + 1))
    /\ RLt(Back(data, field, k + 1), Back(data, field, k))

\* k is the length of the growth streak scanned from the newest point
IsStreak(data, field, k) ==
    IF Cardinality(Observed(data, field)) < 2 THEN k = 0
    ELSE /\ k \in 0..(Cardinality(Observed(data, field)) - 1)
         /\ \A j \in 0..(k - 1) : GrowthPair(data, field, j)
         /\ k < Cardinality(Observed(data, field)) - 1 => ~GrowthPair(data, field, k)

\* C16: count_consecutive_growth_years returns 0 for fewer than 2 observed
\* points, otherwise the number of adjacent pairs from the newest backwards that
\* satisfy previous > 0 and current > previous up to the first pair that does
\* not; at most the number of observed points minus one.
C16_GrowthStreak ==
    call.op = "count_consecutive_growth_years" =>
        /\ call.exc = None
        /\ IsStreak(call.data, call.field, call.ret)

\* four observed points, the newest three being 20, 10 and -30: 10 -> 20 counts,
\* -30 -> 10 does not although the value grew, so the streak is 1
C16_Witness ==
    /\ call.op = "count_consecutive_growth_years"
    /\ Cardinality(Observed(call.data, call.field)) = 4
    /\ Back(call.data, call.field, 0) = R(20)
    /\ Back(call.data, call.field, 1) = R(10)
    /\ Back(call.data, call.field, 2) = R(-30)
    /\ call.ret = 1

\* what calculate_cagr is to return for years >= 1
CagrAsStated(data, field, years, exc, ret) ==
    /\ exc = None
    /\ IF Cardinality(Observed(data, field)) < years + 1 THEN ret = None
       ELSE IF RLe(Back(data, field, years), R(0)) \/ RLe(Back(data, field, 0), R(0))
            THEN ret = None
       ELSE ret = Some(Cagr(Back(data, field, 0), Back(data, field, years), years))

\* C17: for years >= 1, calculate_cagr returns unknown when the field has fewer
\* than years + 1 observed points or the value years observations before the
\* newest or the newest value is <= 0; otherwise a known value computed from
\* exactly those two observations.
C17_CagrPreconditions ==
    (call.op = "calculate_cagr" /\ call.years >= 1) =>
        CagrAsStated(call.data, call.field, call.years, call.exc, call.ret)

\* four observed points with a NaN year between them, two years back from 20
\* is 10 while the oldest is 20: the value is taken from 20 / 10
C17_Witness ==
    /\ call.op = "calculate_cagr"
    /\ call.years = 2
    /\ Cardinality(Observed(call.data, call.field)) = 3
    /\ Len(Val(call.data).cols) = 4
    /\ call.ret = Some(Cagr(R(20), R(10), 2))

\* C18: calculate_cagr and has_consistent_growth return a value or the unknown
\* marker for every horizon years >= 0 and every annual series; they do not
\* raise.
C18_GrowthNeverRaises ==
    call.op \in {"calculate_cagr", "has_consistent_growth"} => call.exc = None

----------------------------------------------------------------------------
(* MetricsCalculator: PE ratio and ROIC *)

\* float('nan'): a float that is no rational; truthy, and every comparison
\* with it is False
NaN == [n |-> 1, d |-> 0]

\* pd.isna(x): None or NaN
isna(o) == o = None \/ Val(o) = NaN

FAdd(a, b) == IF a = NaN \/ b = NaN THEN NaN ELSE RAdd(a, b)
FSub(a, b) == IF a = NaN \/ b = NaN THEN NaN ELSE RSub(a, b)
FMul(a, b) == IF a = NaN \/ b = NaN THEN NaN ELSE RMul(a, b)
\* a / b for b # 0
FDiv(a, b) == IF a = NaN \/ b = NaN THEN NaN ELSE RDiv(a, b)
FLt(a, b) == a # NaN /\ b # NaN /\ RLt(a, b)
FLe(a, b) == a # NaN /\ b # NaN /\ RLe(a, b)
FAbs(a) == IF a = NaN THEN NaN ELSE IF a.n < 0 THEN [n |-> -a.n, d |-> a.d] ELSE a

\* Python's max(a, b) and min(a, b): the first argument unless the second is
\* strictly greater / smaller
PyMax(a, b) == IF FLt(a, b) THEN b ELSE a
PyMin(a, b) == IF FLt(b, a) THEN b ELSE a

\* MetricsCalculator._parse_annual: sorted most recent first
_parse_annual_newest_first(data) ==
    IF data = None \/ Val(data).cols = << >> THEN None
    ELSE Some(DataFrame(Val(data).index, SortNewestFirst(Val(data).cols)))

\* the "info" map of the statement bundle; a missing key reads as None
Info(trailingPE, marketCap) == [trailingPE |-> trailingPE, marketCap |-> marketCap]

\* calculate_pe_ratio from the values it reads
PeFrom(pe, market_cap, ttm_earnings) ==
    IF NonZero(pe) /\ FLt(R(0), Val(pe)) THEN pe
    ELSE IF NonZero(market_cap) /\ NonZero(ttm_earnings) /\ FLt(R(0), Val(ttm_earnings))
         THEN Some(FDiv(Val(market_cap), Val(ttm_earnings)))
    ELSE None

\* MetricsCalculator.calculate_pe_ratio
calculate_pe_ratio(info, quarterly_financials) ==
    PeFrom(info.trailingPE, info.marketCap, get_ttm_net_income(quarterly_financials))

\* Series.get(field) on column year_offset of a frame: None when the line item
\* is not in the index, NaN when it has no value for the period
Get(df, year_offset, field) ==
    IF field \notin df.index THEN None
    ELSE IF df.cols[year_offset + 1].cells[field] = None THEN Some(NaN)
    ELSE df.cols[year_offset + 1].cells[field]

\* ebit = fin.get("EBIT") or fin.get("Operating Income")
Ebit(fin, year_offset) ==
    Or(Get(fin, year_offset, "EBIT"), Get(fin, year_offset, "Operating Income"))

DEFAULT_TAX_RATE == Rat(1, 4)
MAX_TAX_RATE == Rat(1, 2)

\* the tax rate from pretax income and tax
TaxRateFrom(pretax, tax) ==
    IF NonZero(pretax) /\ NonZero(tax) /\ FLt(R(0), Val(pretax))
    THEN PyMin(PyMax(FDiv(FAbs(Val(tax)), Val(pretax)), R(0)), MAX_TAX_RATE)
    ELSE DEFAULT_TAX_RATE

TaxRate(fin, year_offset) ==
    TaxRateFrom(Get(fin, year_offset, "Pretax Income"),
                Or(Get(fin, year_offset, "Tax Provision"),
                   Get(fin, year_offset, "Income Tax Expense")))

\* (a or 0) + (b or 0)
OrZeroSum(a, b) == FAdd(Val(Or(a, Some(R(0)))), Val(Or(b, Some(R(0)))))

\* ((Total Debt or 0) + (Long Term Debt or 0)) if pd.isna(Total Debt) else Total Debt
DirectDebt(total_debt, long_term_debt) ==
    IF isna(total_debt) THEN Some(OrZeroSum(total_debt, long_term_debt)) ELSE total_debt

\* if pd.isna(total_debt): (Long Term Debt or 0) + (Current Debt or 0)
DebtElseComponents(total_debt, long_term_debt, current_debt) ==
    IF isna(total_debt) THEN Some(OrZeroSum(long_term_debt, current_debt)) ELSE total_debt

\* total_debt of calculate_roic
RoicTotalDebt(bal, year_offset) ==
    DebtElseComponents(DirectDebt(Get(bal, year_offset, "Total Debt"),
                                  Get(bal, year_offset, "Long Term Debt")),
                       Get(bal, year_offset, "Long Term Debt"),
                       Get(bal, year_offset, "Current Debt"))

\* bal.get("Total Equity") or bal.get("Stockholders Equity")
TotalEquity(bal, year_offset) ==
    Or(Get(bal, year_offset, "Total Equity"), Get(bal, year_offset, "Stockholders Equity"))

CashOrZero(cash) == IF isna(cash) THEN Some(R(0)) ELSE cash

Cash(bal, year_offset) ==
    CashOrZero(Or(Or(Get(bal, year_offset, "Cash And Cash Equivalents"),
                     Get(bal, year_offset, "Cash Cash Equivalents And Short Term Investments")),
                  Some(R(0))))

\* float(total_debt or 0) + float(total_equity) - float(cash)
InvestedCapital(total_debt, total_equity, cash) ==
    FSub(FAdd(Val(Or(total_debt, Some(R(0)))), Val(total_equity)), Val(cash))

\* the end of calculate_roic: invested capital <= 0 gives None
RoicOver(nopat, invested_capital) ==
    IF FLe(invested_capital, R(0)) THEN None ELSE Some(FDiv(nopat, invested_capital))

\* calculate_roic from the chosen EBIT on
RoicFrom(ebit, tax_rate, total_debt, total_equity, cash) ==
    IF isna(ebit) THEN None
    ELSE IF isna(total_equity) THEN None
    ELSE RoicOver(FMul(Val(ebit), FSub(R(1), tax_rate)),
                  InvestedCapital(total_debt, total_equity, cash))

RoicWithEbit(ebit, fin, bal, year_offset) ==
    RoicFrom(ebit, TaxRate(fin, year_offset), RoicTotalDebt(bal, year_offset),
             TotalEquity(bal, year_offset), Cash(bal, year_offset))

\* MetricsCalculator.calculate_roic(year_offset); a balance sheet with fewer
\* periods raises IndexError inside the try and gives None
calculate_roic(annual_financials, annual_balance, year_offset) ==
    IF annual_financials = None \/ annual_balance = None THEN None
    ELSE IF year_offset >= Len(Val(annual_financials).cols) THEN None
    ELSE IF year_offset >= Len(Val(annual_balance).cols) THEN None
    ELSE RoicWithEbit(Ebit(Val(annual_financials), year_offset),
                      Val(annual_financials), Val(annual_balance), year_offset)

\* a ratio that is refused only for an equity of exactly 0
DebtToEquityFrom_nonzero(total_debt, total_equity) ==
    IF isna(total_equity) \/ Val(total_equity) = R(0) THEN None
    ELSE Some(FDiv(Val(CashOrZero(total_debt)), Val(total_equity)))

\* calculate_debt_to_equity from total_debt and total_equity on; a total_debt
\* that is still NaN counts as 0
DebtToEquityFrom(total_debt, total_equity) ==
    IF isna(total_equity) \/ FLe(Val(total_equity), R(0)) THEN None
    ELSE Some(FDiv(Val(CashOrZero(total_debt)), Val(total_equity)))

\* MetricsCalculator.calculate_debt_to_equity: the most recent balance sheet
calculate_debt_to_equity(annual_balance) ==
    IF annual_balance = None \/ empty(Val(annual_balance)) THEN None
    ELSE DebtToEquityFrom(
             DebtElseComponents(Get(Val(annual_balance), 0, "Total Debt"),
                                Get(Val(annual_balance), 0, "Long Term Debt"),
                                Get(Val(annual_balance), 0, "Current Debt")),
             TotalEquity(Val(annual_balance), 0))

\* a history that leaves an unknown ROIC out and goes on
HistoryStep_skipping(roic, rest) ==
    IF roic = None THEN rest ELSE <<Val(roic)>> \o rest

\* one round of the loop of calculate_roic_history: append, or break
HistoryStep(roic, rest) ==
    IF roic = None THEN << >> ELSE <<Val(roic)>> \o rest

\* the loop of calculate_roic_history from offset i on
RECURSIVE RoicHistoryFrom(_, _, _, _)
RoicHistoryFrom(annual_financials, annual_balance, i, years) ==
    IF i >= years THEN << >>
    ELSE HistoryStep(calculate_roic(annual_financials, annual_balance, i),
                     RoicHistoryFrom(annual_financials, annual_balance, i + 1, years))

\* MetricsCalculator.calculate_roic_history(years)
calculate_roic_history(annual_financials, annual_balance, years) ==
    RoicHistoryFrom(annual_financials, annual_balance, 0, years)

\* calculate_cf_yield from the two TTM values
CfYieldFrom(fcf, revenue) ==
    IF fcf = None \/ revenue = None THEN None
    ELSE IF FLe(Val(revenue), R(0)) THEN None
    ELSE Some(FDiv(Val(fcf), Val(revenue)))

\* MetricsCalculator.calculate_cf_yield
calculate_cf_yield(quarterly_cashflow, quarterly_financials) ==
    CfYieldFrom(get_ttm_fcf(quarterly_cashflow), get_ttm_revenue(quarterly_financials))

\* the window calculate_all passes to calculate_roic_history
ROIC_HISTORY_YEARS == 6

\* a or b on Optional[str]: a unless it is None or ""
StrOr(a, b) == IF Truthy(a) THEN a ELSE b

\* roic_history[0] if roic_history else None
FirstOrNone(history) == IF history = << >> THEN None ELSE Some(history[1])

\* the FinancialMetrics calculate_all creates, data_complete set last
NewFinancialMetrics(company, info, ttm_earnings, ttm_revenue, ttm_fcf, roic_history, pe_ratio, debt_to_equity, cf_yield) ==
    [ticker |-> company.ticker,
     name |-> Val(StrOr(StrOr(StrOr(company.name, info.shortName), info.longName), Some(""))),
     exchange |-> company.exchange,
     sector |-> info.sector,
     industry |-> info.industry,
     pe_ratio |-> pe_ratio,
     market_cap |-> info.marketCap,
     roic |-> FirstOrNone(roic_history),
     roic_history |-> Some(roic_history),
     revenue_growth_years |-> None,
     earnings_growth_years |-> None,
     debt_to_equity |-> debt_to_equity,
     free_cash_flow |-> ttm_fcf,
     cf_yield |-> cf_yield,
     ttm_revenue |-> ttm_revenue,
     ttm_earnings |-> ttm_earnings,
     has_positive_earnings |-> has_positive_earnings(ttm_earnings),
     data_complete |-> /\ pe_ratio # None
                       /\ FirstOrNone(roic_history) # None
                       /\ debt_to_equity # None
                       /\ ttm_fcf # None]

\* MetricsCalculator.calculate_all over the parsed statements
CalculateAllOver(company, info, quarterly_financials, quarterly_cashflow, annual_financials, annual_balance) ==
    NewFinancialMetrics(company, info,
                        get_ttm_net_income(quarterly_financials),
                        get_ttm_revenue(quarterly_financials),
                        get_ttm_fcf(quarterly_cashflow),
                        calculate_roic_history(annual_financials, annual_balance,
                                               ROIC_HISTORY_YEARS),
                        calculate_pe_ratio(info, quarterly_financials),
                        calculate_debt_to_equity(annual_balance),
                        calculate_cf_yield(quarterly_cashflow, quarterly_financials))

\* MetricsCalculator(financial_data, company_info).calculate_all()
calculate_all(financial_data, company) ==
    CalculateAllOver(company, financial_data.info,
                     _parse_quarterly(financial_data.quarterly_financials),
                     _parse_quarterly(financial_data.quarterly_cashflow),
                     _parse_annual_newest_first(financial_data.annual_financials),
                     _parse_annual_newest_first(financial_data.annual_balance))

----------------------------------------------------------------------------
(* One call on a MetricsCalculator built from a statement bundle *)

TrailingPEs == {None, Some(R(0)), Some(R(-5)), Some(R(15))}
MarketCaps == {None, Some(R(0)), Some(R(1000))}
NetIncomeValues == {None, Some(R(10)), Some(R(-30))}

PeCall(info, data) ==
    [op |-> "calculate_pe_ratio", info |-> info, data |-> data,
     ret |-> calculate_pe_ratio(info, _parse_quarterly(data))]

\* MetricsCalculator(financial_data, company).calculate_pe_ratio()
CalculatePeRatio(info, data) ==
    /\ call' = PeCall(info, data)
    /\ UNCHANGED <<poolVars, nadds, nreads>>
    /\ UNCHANGED runVars

\* what a line item may hold for one annual period: not listed (None), listed
\* without a value (NaN), or a value
Absent == None
Blank == <<None>>
Holding(i) == <<Some(R(i))>>

EbitRows == {Absent, Blank, Holding(0), Holding(50), Holding(-20)}
PretaxRows == {Absent, Holding(100)}
TaxRows == {Absent, Holding(20)}
DebtRows == {Absent, Holding(100)}
EquityRows == {Absent, Holding(200)}
CashRows == {Absent, Holding(50)}
YearOffsets == {0, 1}

\* a one-period annual income statement
IncomeRows(ebit, operating_income, pretax, tax) ==
    [f \in {"EBIT", "Operating Income", "Pretax Income", "Tax Provision"} |->
        CASE f = "EBIT" -> ebit
          [] f = "Operating Income" -> operating_income
          [] f = "Pretax Income" -> pretax
          [] OTHER -> tax]

\* a one-period annual balance sheet
BalanceRows(total_debt, total_equity, cash) ==
    [f \in {"Total Debt", "Total Equity", "Cash And Cash Equivalents"} |->
        CASE f = "Total Debt" -> total_debt
          [] f = "Total Equity" -> total_equity
          [] OTHER -> cash]

RoicCall(fin, bal, year_offset) ==
    [op |-> "calculate_roic", fin |-> fin, bal |-> bal, year_offset |-> year_offset,
     ret |-> calculate_roic(_parse_annual_newest_first(fin),
                            _parse_annual_newest_first(bal), year_offset)]

\* MetricsCalculator(financial_data, company).calculate_roic(year_offset)
CalculateRoic(fin, bal, year_offset) ==
    /\ call' = RoicCall(fin, bal, year_offset)
    /\ UNCHANGED <<poolVars, nadds, nreads>>
    /\ UNCHANGED runVars

\* the rows that decide the tax rate
PretaxIncomeRows == {Absent, Blank, Holding(0), Holding(100), Holding(-100)}
TaxProvisionRows == {Absent, Blank, Holding(0), Holding(20), Holding(-20), Holding(80)}
IncomeTaxExpenseRows == {Absent, Holding(30)}

\* a one-period annual income statement with an EBIT of 50
TaxedIncomeRows(pretax, tax_provision, income_tax_expense) ==
    [f \in {"EBIT", "Pretax Income", "Tax Provision", "Income Tax Expense"} |->
        CASE f = "EBIT" -> Holding(50)
          [] f = "Pretax Income" -> pretax
          [] f = "Tax Provision" -> tax_provision
          [] OTHER -> income_tax_expense]

\* the rows that decide total debt and total equity
TotalDebtRows == {Absent, Blank, Holding(0), Holding(100)}
LongTermDebtRows == {Absent, Blank, Holding(60)}
CurrentDebtRows == {Absent, Blank, Holding(40)}
TotalEquityRows == {Absent, Blank, Holding(0), Holding(200), Holding(-200)}
StockholdersEquityRows == {Absent, Holding(300)}

\* a one-period annual balance sheet with its debt and equity line items
DebtBalanceRows(total_debt, long_term_debt, current_debt, total_equity, stockholders_equity) ==
    [f \in {"Total Debt", "Long Term Debt", "Current Debt", "Total Equity",
            "Stockholders Equity"} |->
        CASE f = "Total Debt" -> total_debt
          [] f = "Long Term Debt" -> long_term_debt
          [] f = "Current Debt" -> current_debt
          [] f = "Total Equity" -> total_equity
          [] OTHER -> stockholders_equity]

\* the raw statement holding the reported rows, whose periods are dated
\* 1..Periods(rows) and listed newest first or oldest first; a row lists its
\* values oldest first
StatementOf(rows, newest_first) ==
    Some(DataFrame(Reported(rows),
                   [q \in 1..Periods(rows) |->
                       [date  |-> IF newest_first THEN Periods(rows) + 1 - q ELSE q,
                        cells |-> [f \in Reported(rows) |->
                                      rows[f][IF newest_first THEN Periods(rows) + 1 - q
                                                              ELSE q]]]]))

\* total equity over two annual periods, oldest first
TwoYearEquityRows ==
    { <<Some(R(200)), Some(R(400))>>, <<Some(R(200)), None>>,
      <<None, Some(R(400))>>, <<Some(R(200)), Some(R(-200))>> }

\* a two-period balance sheet with a total debt of 100 in both periods
TwoYearBalanceRows(total_equity) ==
    [f \in {"Total Debt", "Total Equity"} |->
        IF f = "Total Debt" THEN <<Some(R(100)), Some(R(100))>> ELSE total_equity]

\* the debt-to-equity value of calculate_all and the criterion applied to it
DebtToEquityCall(bal, debt_to_equity) ==
    [op |-> "calculate_debt_to_equity", bal |-> bal, ret |-> debt_to_equity,
     filter |-> filter_debt_to_equity(WithDebtToEquity(debt_to_equity))]

\* MetricsCalculator(financial_data, company).calculate_debt_to_equity(), then
\* StockFilters.filter_debt_to_equity on the metrics holding it
CalculateDebtToEquity(bal) ==
    /\ call' = DebtToEquityCall(bal, calculate_debt_to_equity(_parse_annual_newest_first(bal)))
    /\ UNCHANGED <<poolVars, nadds, nreads>>
    /\ UNCHANGED runVars

\* bound of the exploration: annual periods of the statements of a ROIC history
MaxAnnual == 3

AnnualEbitValues == {None, Some(R(50)), Some(R(80))}
AnnualEquityValues == {None, Some(R(200))}
HistoryYears == {1, 2, ROIC_HISTORY_YEARS}

\* an annual income statement listing EBIT, and an annual balance sheet listing
\* total equity, over the given periods (values oldest first; no values: no
\* statement data)
EbitStatement(values, newest_first) ==
    StatementOf([f \in {"EBIT"} |-> values], newest_first)

EquityStatement(values, newest_first) ==
    StatementOf([f \in {"Total Equity"} |-> values], newest_first)

HistoryCall(fin, bal, years) ==
    [op |-> "calculate_roic_history", fin |-> fin, bal |-> bal, years |-> years,
     ret |-> calculate_roic_history(_parse_annual_newest_first(fin),
                                    _parse_annual_newest_first(bal), years)]

\* MetricsCalculator(financial_data, company).calculate_roic_history(years)
CalculateRoicHistory(fin, bal, years) ==
    /\ call' = HistoryCall(fin, bal, years)
    /\ UNCHANGED <<poolVars, nadds, nreads>>
    /\ UNCHANGED runVars

\* the statement bundle of one company
FinancialData(info, quarterly_financials, quarterly_cashflow, annual_financials, annual_balance) ==
    [info |-> info, quarterly_financials |-> quarterly_financials,
     quarterly_cashflow |-> quarterly_cashflow, annual_financials |-> annual_financials,
     annual_balance |-> annual_balance]

\* the "info" map with every key calculate_all reads
InfoOf(sector, industry, trailingPE, marketCap) ==
    [sector |-> sector, industry |-> industry, trailingPE |-> trailingPE,
     marketCap |-> marketCap, shortName |-> Some("Acme"), longName |-> None]

Infos ==
    { InfoOf(Some("Technology"), Some("Software"), Some(R(15)), Some(R(1000))),
      InfoOf(None, None, None, None) }

ACME == [ticker |-> "ACME", name |-> None, exchange |-> "XSTO"]

\* quarterly income statements: none, or four quarters of revenue and earnings
QuarterlyFinancials ==
    { None,
      StatementOf([f \in IncomeItems |->
                      IF f = "Net Income"
                      THEN <<Some(R(10)), Some(R(10)), Some(R(10)), Some(R(10))>>
                      ELSE <<Some(R(100)), Some(R(100)), Some(R(100)), Some(R(100))>>],
                  TRUE) }

\* quarterly cash-flow statements: none, or four quarters of free cash flow
QuarterlyCashflows ==
    { None,
      StatementOf([f \in {"Free Cash Flow"} |->
                      <<Some(R(5)), Some(R(5)), Some(R(5)), Some(R(5))>>], TRUE) }

AllCall(financial_data, company) ==
    [op |-> "calculate_all", data |-> financial_data,
     fin |-> financial_data.annual_financials, bal |-> financial_data.annual_balance,
     years |-> ROIC_HISTORY_YEARS,
     ret |-> calculate_all(financial_data, company)]

\* MetricsCalculator(financial_data, company).calculate_all()
CalculateAll(financial_data, company) ==
    /\ call' = AllCall(financial_data, company)
    /\ UNCHANGED <<poolVars, nadds, nreads>>
    /\ UNCHANGED runVars

NextMetrics ==
    \/ Fresh /\ \E pe \in TrailingPEs, market_cap \in MarketCaps,
                   values \in SeqsUpTo(NetIncomeValues, MaxQuarters),
                   newest_first \in BOOLEAN :
                      CalculatePeRatio(Info(pe, market_cap),
                                       OneItemStatement("Net Income", values, newest_first))
    \/ Fresh /\ \E ebit \in EbitRows, operating_income \in EbitRows,
                   pretax \in PretaxRows, tax \in TaxRows, total_debt \in DebtRows,
                   total_equity \in EquityRows, cash \in CashRows,
                   year_offset \in YearOffsets :
                      CalculateRoic(
                          AnnualStatement(IncomeRows(ebit, operating_income, pretax, tax)),
                          AnnualStatement(BalanceRows(total_debt, total_equity, cash)),
                          year_offset)
    \/ Fresh /\ \E pretax \in PretaxIncomeRows, tax_provision \in TaxProvisionRows,
                   income_tax_expense \in IncomeTaxExpenseRows, total_debt \in DebtRows :
                      CalculateRoic(
                          AnnualStatement(TaxedIncomeRows(pretax, tax_provision,
                                                          income_tax_expense)),
                          AnnualStatement(BalanceRows(total_debt, Holding(200), Absent)),
                          0)
    \/ Fresh /\ \E total_debt \in TotalDebtRows, long_term_debt \in LongTermDebtRows,
                   current_debt \in CurrentDebtRows, total_equity \in TotalEquityRows,
                   stockholders_equity \in StockholdersEquityRows :
                      CalculateRoic(
                          AnnualStatement(IncomeRows(Holding(50), Absent, Absent, Absent)),
                          AnnualStatement(DebtBalanceRows(total_debt, long_term_debt,
                                                          current_debt, total_equity,
                                                          stockholders_equity)),
                          0)
    \/ Fresh /\ \E total_debt \in TotalDebtRows, long_term_debt \in LongTermDebtRows,
                   current_debt \in CurrentDebtRows, total_equity \in TotalEquityRows,
                   stockholders_equity \in StockholdersEquityRows :
                      CalculateDebtToEquity(
                          AnnualStatement(DebtBalanceRows(total_debt, long_term_debt,
                                                          current_debt, total_equity,
                                                          stockholders_equity)))
    \/ Fresh /\ CalculateDebtToEquity(None)
    \/ Fresh /\ \E total_equity \in TwoYearEquityRows, newest_first \in BOOLEAN :
                      CalculateDebtToEquity(
                          StatementOf(TwoYearBalanceRows(total_equity), newest_first))
    \/ Fresh /\ \E ebit \in SeqsUpTo(AnnualEbitValues, MaxAnnual),
                   equity \in SeqsUpTo(AnnualEquityValues, MaxAnnual),
                   newest_first \in BOOLEAN, years \in HistoryYears :
                      CalculateRoicHistory(EbitStatement(ebit, newest_first),
                                           EquityStatement(equity, newest_first), years)
    \/ Fresh /\ \E ebit \in SeqsUpTo(AnnualEbitValues, MaxAnnual),
                   equity \in SeqsUpTo(AnnualEquityValues, MaxAnnual),
                   newest_first \in BOOLEAN, year_offset \in 0..(MaxAnnual - 1) :
                      CalculateRoic(EbitStatement(ebit, newest_first),
                                    EquityStatement(equity, newest_first), year_offset)
    \/ Fresh /\ \E info \in Infos, quarterly_financials \in QuarterlyFinancials,
                   quarterly_cashflow \in QuarterlyCashflows,
                   ebit \in SeqsUpTo(AnnualEbitValues, MaxAnnual),
                   equity \in SeqsUpTo(AnnualEquityValues, MaxAnnual) :
                      CalculateAll(FinancialData(info, quarterly_financials,
                                                 quarterly_cashflow,
                                                 EbitStatement(ebit, FALSE),
                                                 EquityStatement(equity, FALSE)),
                                   ACME)

SpecMetrics == Init /\ [][NextMetrics]_vars

----------------------------------------------------------------------------
(* Properties of MetricsCalculator (specification SpecMetrics) *)

Known(o) == o # None /\ Val(o) # NaN

\* what calculate_pe_ratio is to return given the direct PE, the market cap
\* and the TTM net income
PeAsStated(ret, pe, market_cap, net_income) ==
    IF Known(pe) /\ RLt(R(0), Val(pe)) THEN ret = pe
    ELSE IF Known(market_cap) /\ Known(net_income) /\ RLt(R(0), Val(net_income))
         THEN ret = Some(RDiv(Val(market_cap), Val(net_income)))
    ELSE ret = None

\* C19: calculate_pe_ratio returns the directly reported trailing PE when it is
\* known and > 0; otherwise market cap divided by TTM net income when market cap
\* is known and TTM net income is known and strictly positive; otherwise
\* unknown. No PE comes from a TTM net income <= 0 or from a partial sum.
C19_PeDirectElseDerived ==
    call.op = "calculate_pe_ratio" =>
        PeAsStated(call.ret, call.info.trailingPE, call.info.marketCap,
                   WindowSum(call.data, "Net Income", TTM_QUARTERS))

\* the value a line item has for the period of a raw one-period
\* statement: None when not listed or listed without a value
ValueOf(data, field) ==
    IF data = None THEN None
    ELSE IF field \notin Val(data).index THEN None
    ELSE Val(data).cols[1].cells[field]

\* the EBIT calculate_roic is to use
EbitAsStated(fin) ==
    IF ValueOf(fin, "EBIT") # None THEN ValueOf(fin, "EBIT")
    ELSE ValueOf(fin, "Operating Income")

\* C20: in calculate_roic, an EBIT value that is absent for the period (line
\* item missing, or listed without a value for that period) is replaced by a
\* known Operating Income, and a known EBIT, exactly 0 included, is used as-is.
C20_EbitFallback ==
    (/\ call.op = "calculate_roic"
     /\ call.year_offset = 0
     /\ call.fin # None
     /\ call.bal # None
     /\ Len(Val(call.fin).cols) = 1
     /\ Len(Val(call.bal).cols) = 1
     /\ EbitAsStated(call.fin) # None)
    => call.ret = RoicWithEbit(EbitAsStated(call.fin), Val(call.fin), Val(call.bal), 0)

\* a call of calculate_roic(0) on one-period statements
OnePeriodRoicCall ==
    /\ call.op = "calculate_roic"
    /\ call.year_offset = 0
    /\ call.fin # None
    /\ call.bal # None
    /\ Len(Val(call.fin).cols) = 1
    /\ Len(Val(call.bal).cols) = 1

\* the tax of the period: the tax provision, else the income tax expense
TaxAsStated(fin) ==
    IF ValueOf(fin, "Tax Provision") # None THEN ValueOf(fin, "Tax Provision")
    ELSE ValueOf(fin, "Income Tax Expense")

Clamp(x, lo, hi) == RMin(RMax(x, lo), hi)

\* the effective tax rate as stated
RateFor(pretax, tax) ==
    IF pretax # None /\ RLt(R(0), Val(pretax)) /\ tax # None
    THEN Clamp(RDiv(RAbs(Val(tax)), Val(pretax)), R(0), Rat(1, 2))
    ELSE Rat(1, 4)

RateAsStated(fin) == RateFor(ValueOf(fin, "Pretax Income"), TaxAsStated(fin))

\* C21: in calculate_roic the effective tax rate is clamp(|tax provision| /
\* pretax income, 0, 0.5) whenever pretax income is known and > 0 and the tax
\* provision is known (a provision of exactly 0 giving rate 0), and 0.25 in
\* every other case: the returned ROIC is the one computed with that rate.
C21_TaxRate ==
    OnePeriodRoicCall =>
        call.ret = RoicFrom(Ebit(Val(call.fin), 0), RateAsStated(call.fin),
                            RoicTotalDebt(Val(call.bal), 0), TotalEquity(Val(call.bal), 0),
                            Cash(Val(call.bal), 0))

\* a missing component counts as 0
OrZero(o) == IF o = None THEN R(0) ELSE Val(o)

\* total debt as stated: "Total Debt" when known, else "Long Term Debt" +
\* "Current Debt", each missing component counted as 0
DebtAsStated(bal) ==
    IF ValueOf(bal, "Total Debt") # None THEN ValueOf(bal, "Total Debt")
    ELSE Some(RAdd(OrZero(ValueOf(bal, "Long Term Debt")),
                   OrZero(ValueOf(bal, "Current Debt"))))

\* a call of calculate_debt_to_equity on a one-period balance sheet
OnePeriodDebtToEquityCall ==
    /\ call.op = "calculate_debt_to_equity"
    /\ call.bal # None
    /\ Len(Val(call.bal).cols) = 1

\* C22: total debt is resolved the same way in calculate_roic and
\* calculate_debt_to_equity: "Total Debt" when known, otherwise "Long Term
\* Debt" + "Current Debt" with each missing component counted as 0; invested
\* capital in calculate_roic is that total debt + total equity - cash.
C22_TotalDebtResolution ==
    /\ OnePeriodRoicCall =>
          call.ret = RoicFrom(Ebit(Val(call.fin), 0), TaxRate(Val(call.fin), 0),
                              DebtAsStated(call.bal), TotalEquity(Val(call.bal), 0),
                              Cash(Val(call.bal), 0))
    /\ OnePeriodDebtToEquityCall =>
          call.ret = DebtToEquityFrom(DebtAsStated(call.bal), TotalEquity(Val(call.bal), 0))

\* the periods of a raw statement with the latest date
Latest(data) ==
    {q \in 1..Len(Val(data).cols) :
        \A p \in 1..Len(Val(data).cols) : Val(data).cols[p].date <= Val(data).cols[q].date}

\* the most recent period of the raw balance sheet holds a known and strictly
\* positive value for one of the two equity line items
PositiveEquity(bal) ==
    /\ bal # None
    /\ \E q \in Latest(bal), f \in {"Total Equity", "Stockholders Equity"} \cap Val(bal).index :
          /\ Val(bal).cols[q].cells[f] # None
          /\ RLt(R(0), Val(Val(bal).cols[q].cells[f]))

\* C25: calculate_debt_to_equity returns a known value only when the most
\* recent annual balance sheet has total equity known and strictly positive; a
\* company with no balance-sheet data has debt_to_equity unknown, and the
\* debt-to-equity filter then fails with the "not available" reason and carries
\* no numeric value or threshold.
C25_DebtToEquityNeedsEquity ==
    call.op = "calculate_debt_to_equity" =>
        /\ call.ret # None => (Val(call.ret) # NaN /\ PositiveEquity(call.bal))
        /\ call.bal = None => call.ret = None
        /\ call.ret = None =>
              call.filter = FilterResult(FALSE, "D/E ratio not available", None, None)

\* no balance-sheet data: the value is unknown and the filter says so
C25_Witness ==
    /\ call.op = "calculate_debt_to_equity"
    /\ call.bal = None
    /\ call.ret = None
    /\ call.filter.reason = "D/E ratio not available"

\* the number of periods of a raw statement (none when it is missing)
PeriodsOf(data) == IF data = None THEN 0 ELSE Len(Val(data).cols)

\* the invested capital calculate_roic computes for the period
CapitalOf(bal, year_offset) ==
    InvestedCapital(RoicTotalDebt(bal, year_offset), TotalEquity(bal, year_offset),
                    Cash(bal, year_offset))

\* the cases in which calculate_roic is to return unknown
RoicUnknownCase(fin, bal, year_offset) ==
    \/ year_offset >= PeriodsOf(fin)
    \/ year_offset >= PeriodsOf(bal)
    \/ isna(Ebit(Val(fin), year_offset))
    \/ isna(TotalEquity(Val(bal), year_offset))
    \/ FLe(CapitalOf(Val(bal), year_offset), R(0))

\* C23: calculate_roic(year_offset) returns unknown exactly when the offset is
\* beyond the available annual periods, EBIT (after fallback) is unknown, total
\* equity is unknown, or invested capital <= 0; in every other case it returns
\* a defined number, never a not-a-number value reported as a known ROIC.
C23_RoicUnknownExactly ==
    (call.op = "calculate_roic" /\ PeriodsOf(call.fin) <= 1 /\ PeriodsOf(call.bal) <= 1) =>
        /\ call.ret = None <=> RoicUnknownCase(call.fin, call.bal, call.year_offset)
        /\ call.ret # None => Val(call.ret) # NaN

\* h lists the ROIC of offsets 0, 1, ... up to the first offset whose ROIC is
\* unknown, at most n of them
IsPrefixHistory(h, fin, bal, n) ==
    /\ Len(h) <= n
    /\ \A i \in 1..Len(h) : calculate_roic(fin, bal, i - 1) = Some(h[i])
    /\ Len(h) < n => calculate_roic(fin, bal, Len(h)) = None

\* C24: calculate_roic_history(n) returns the ROIC values of offsets 0..k-1,
\* newest first, where k <= n is the first offset whose ROIC is unknown (n if
\* none is): a prefix without gaps; FinancialMetrics.roic is the first history
\* element, and unknown iff the history is empty.
C24_HistoryIsPrefix ==
    /\ call.op = "calculate_roic_history" =>
          IsPrefixHistory(call.ret, _parse_annual_newest_first(call.fin),
                          _parse_annual_newest_first(call.bal), call.years)
    /\ call.op = "calculate_all" =>
          /\ call.ret.roic_history # None
          /\ IsPrefixHistory(Val(call.ret.roic_history),
                             _parse_annual_newest_first(call.fin),
                             _parse_annual_newest_first(call.bal), ROIC_HISTORY_YEARS)
          /\ call.ret.roic = None <=> Val(call.ret.roic_history) = << >>
          /\ call.ret.roic # None => Val(call.ret.roic) = Val(call.ret.roic_history)[1]

\* three periods, the middle one without EBIT: the history stops after the
\* newest although the oldest period has a ROIC
C24_Witness ==
    /\ call.op = "calculate_roic_history"
    /\ call.years = ROIC_HISTORY_YEARS
    /\ Len(call.ret) = 1
    /\ calculate_roic(_parse_annual_newest_first(call.fin),
                      _parse_annual_newest_first(call.bal), 2) # None

\* the period-end dates a raw statement covers
Dates(data) ==
    IF data = None THEN {} ELSE {Val(data).cols[q].date : q \in 1..Len(Val(data).cols)}

\* the dates of a statement that lie exactly year_offset periods back from its
\* most recent one
DateAt(data, year_offset) ==
    {d \in Dates(data) : Cardinality({e \in Dates(data) : e > d}) = year_offset}

\* C29: calculate_roic(year_offset) combines an income statement and a balance
\* sheet of the same period-end date: when the two annual series do not cover
\* the same dates and the periods at the offset differ, the result is unknown,
\* not a ratio of one year's NOPAT to another year's invested capital.
C29_SamePeriod ==
    (/\ call.op = "calculate_roic"
     /\ Dates(call.fin) # Dates(call.bal)
     /\ DateAt(call.fin, call.year_offset) # DateAt(call.bal, call.year_offset))
    => call.ret = None

----------------------------------------------------------------------------
(* Properties of the numeric criteria (specification SpecFilters) *)

\* the entries of a history that reach the configured minimum ROIC
AtLeastMinimum(h) == {i \in 1..Len(h) : ~RLt(h[i], min_roic)}

C27_ThresholdBoundaries ==
    /\ call.op = "filter_debt_to_equity" =>
          (call.ret.passed <=>
              /\ call.metrics.debt_to_equity # None
              /\ ~RLe(max_debt_to_equity, Val(call.metrics.debt_to_equity)))
    /\ call.op = "filter_positive_fcf" =>
          (call.ret.passed <=>
              /\ call.metrics.free_cash_flow # None
              /\ Val(call.metrics.free_cash_flow).n > 0)
    /\ call.op = "filter_cf_yield" =>
          (call.ret.passed <=>
              /\ call.metrics.cf_yield # None
              /\ ~RLt(Val(call.metrics.cf_yield), min_cf_yield))
    /\ call.op \in {"filter_revenue_growth", "filter_earnings_growth"} =>
          (call.ret.passed <=>
              /\ call.growth_years # None
              /\ ~(Val(call.growth_years) < growth_years))

\* a cash-flow yield equal to the configured minimum passes
C27_Witness ==
    /\ call.op = "filter_cf_yield"
    /\ call.metrics.cf_yield = Some(min_cf_yield)
    /\ call.ret.passed

----------------------------------------------------------------------------
(* Writes to a company's FinancialMetrics during a run (specification Spec) *)

Calculated(company) == company.has_data /\ ~company.calc_raises

\* the companies of the run for which calculate_all created a FinancialMetrics
Created == SelectSeq(universe, Calculated)

\* the two fields _apply_filters assigns, taken from the growth bundle
WithGrowthOf(metrics, growth_data) ==
    [metrics EXCEPT !.revenue_growth_years = growth_data.revenue_growth_years,
                    !.earnings_growth_years = growth_data.earnings_growth_years]

\* the metrics of an entry as the claim states them: the object calculate_all
\* created, with the growth fields assigned once the company reached filtering
MetricsAsStated(i) ==
    IF i <= ReachedFiltering
    THEN WithGrowthOf(Created[i].metrics, all_metrics[i].growth_data)
    ELSE Created[i].metrics

\* C28: a company's FinancialMetrics is the object calculate_all created until
\* the company reaches _apply_filters; from then on revenue_growth_years and
\* earnings_growth_years hold the values of its growth bundle and every other
\* field is still the created one, through filtering, scoring and ranking; the
\* ScreeningResult of the company holds that same object.
C28_MetricsWrittenTwice ==
    /\ Len(all_metrics) <= Len(Created)
    /\ \A i \in 1..Len(all_metrics) : all_metrics[i].metrics = MetricsAsStated(i)
    /\ \A i \in 1..Len(results) : results[i].metrics = all_metrics[i].metrics

----------------------------------------------------------------------------
(* IndustryAverages objects that share the cached averages: load_from_cache *)
(* on an object constructed after an earlier object wrote the cache         *)

\* IndustryAverages.load_from_cache on the world w: [w |-> world after,
\* ret |-> the bool returned]; "if cached:" holds for any stored averages, the
\* stored dict always having its two keys
load_from_cache(w) ==
    IF w.cache # None
    THEN [w   |-> [w EXCEPT !.ia = [@ EXCEPT !.industry_avg = Val(w.cache).industry,
                                             !.sector_avg   = Val(w.cache).sector,
                                             !.averages_calculated = TRUE]],
          ret |-> TRUE]
    ELSE [w |-> w, ret |-> FALSE]

\* bound of the exploration: cache writes after which no further object is made
MaxCacheWrites == 2

\* self.industry_averages = IndustryAverages(): a new object, the cache kept
NewObject ==
    /\ cache_writes < MaxCacheWrites
    /\ industry_averages # NewIndustryAverages
    /\ industry_averages' = NewIndustryAverages
    /\ loaded' = FALSE
    /\ call' = [NoCall EXCEPT !.op = "__init__"]
    /\ nreads' = 0
    /\ UNCHANGED <<cache, cache_writes, nadds>>
    /\ UNCHANGED runVars

LoadedFromCache(r) ==
    /\ industry_averages' = r.w.ia
    /\ loaded' = (loaded \/ r.ret)
    /\ call' = [NoCall EXCEPT !.op = "load_from_cache", !.ret = Some(r.ret)]
    /\ UNCHANGED <<cache, cache_writes, nadds, nreads>>
    /\ UNCHANGED runVars

LoadFromCache == LoadedFromCache(load_from_cache(World))

CachedIndustryLabels == {None, Some("Software")}
CachedPEValues == {Some(R(8)), Some(R(200)), Some(R(201))}

\* bound of the exploration: add_company calls made on all the objects together
MaxCachedAdds == 2

NextCached ==
    \/ \E i \in CachedIndustryLabels, s \in SectorLabels, pe \in CachedPEValues :
          nadds < MaxCachedAdds /\ AddCompany(i, s, pe)
    \/ \E i \in CachedIndustryLabels : GetIndustryAverage(i)
    \/ \E s \in SectorLabels : GetSectorAverage(s)
    \/ \E i \in CachedIndustryLabels, s \in SectorLabels : GetPeerAverage(i, s)
    \/ NewObject
    \/ LoadFromCache

SpecCached == Init /\ [][NextCached]_vars

\* every label of the map has observations in the pool and its median as value
MediansOf(avg, buckets) ==
    \A k \in DOMAIN avg :
        /\ k \in DOMAIN buckets
        /\ buckets[k] # << >>
        /\ avg[k] = Median(buckets[k])

DerivedFromPool(ia) ==
    /\ MediansOf(ia.industry_avg, ia.pe_by_industry)
    /\ MediansOf(ia.sector_avg, ia.pe_by_sector)

\* C30: a read of an object into which load_from_cache installed cached
\* averages and whose pool an accepted add_company dirtied afterwards leaves
\* only averages derived from the pool: every label with an average has an
\* observation in the pool and its average is the median of the label's
\* observations.
C30_OnlyCurrentPoolServed ==
    [][ (/\ nreads' = nreads + 1
         /\ loaded
         /\ ~industry_averages.averages_calculated)
        => DerivedFromPool(industry_averages') ]_vars

====
